---------------------------- MODULE Spec2Model ----------------------------
(***************************************************************************)
(* A model of demo-lang: the byte reader (source.rs), the lexer            *)
(* (tokenizer.rs), the parser (parser.rs), the compiler (compiler.rs) and  *)
(* the virtual machine (runtime.rs, builtins.rs).                          *)
(*                                                                         *)
(* Conventions.  A byte is a one-character string; the byte 0 is NUL.  A   *)
(* source text, the text of a numeric or string literal are sequences of   *)
(* bytes; the text of an identifier is a string.  The pure stages (reader, *)
(* lexer, parser, compiler) are operators, a Rust loop being a RECURSIVE   *)
(* operator named after the function that holds it; the virtual machine is *)
(* a state machine with one action per instruction.                        *)
(***************************************************************************)
EXTENDS Integers, Sequences, FiniteSets, TLC

(***************************************************************************)
(* Bytes                                                                   *)
(***************************************************************************)
NUL == "NUL"

LowerCase == {"a","b","c","d","e","f","g","h","i","j","k","l","m",
              "n","o","p","q","r","s","t","u","v","w","x","y","z"}
UpperCase == {"A","B","C","D","E","F","G","H","I","J","K","L","M",
              "N","O","P","Q","R","S","T","U","V","W","X","Y","Z"}
Digit == {"0","1","2","3","4","5","6","7","8","9"}
HexLetter == {"a","b","c","d","e","f","A","B","C","D","E","F"}

is_ascii_whitespace(c) == c \in {" ", "\t", "\n", "\f", "\r"}

is_ascii_digit(c) == c \in Digit

to_ascii_uppercase(c) ==
    CASE c = "a" -> "A" [] c = "b" -> "B" [] c = "c" -> "C"
      [] c = "d" -> "D" [] c = "e" -> "E" [] c = "f" -> "F"
      [] OTHER -> c

DigitValue(c) ==
    CASE c = "0" -> 0 [] c = "1" -> 1 [] c = "2" -> 2 [] c = "3" -> 3
      [] c = "4" -> 4 [] c = "5" -> 5 [] c = "6" -> 6 [] c = "7" -> 7
      [] c = "8" -> 8 [] c = "9" -> 9

(***************************************************************************)
(* source.rs: SourceReader.  The reader of a CodeSource::Str: `code` is    *)
(* the text and `offset` the bytes already copied to the buffer.           *)
(***************************************************************************)
BUFFER_SIZE == 64
LOOKAHEAD_AMOUNT == 3

Min(a, b) == IF a < b THEN a ELSE b

\* Let(v, F) is F(v): the value v under the name F gives it
Let(v, F(_)) == F(v)

fill_buffer(r) ==
    IF r.eof THEN r
    ELSE LET line_size == Min(BUFFER_SIZE, Len(r.code) - r.offset)
         IN  [r EXCEPT !.buffer = SubSeq(r.code, r.offset + 1, r.offset + line_size),
                       !.offset = r.offset + line_size,
                       !.count = line_size,
                       !.eof = (line_size = 0)]

RECURSIVE fill_lookahead(_)
fill_lookahead(r) ==
    IF Len(r.lookahead) >= LOOKAHEAD_AMOUNT THEN r
    ELSE Let(IF r.pos >= r.count THEN [fill_buffer(r) EXCEPT !.pos = 0] ELSE r,
             LAMBDA r1 :
                 fill_lookahead(
                     IF ~r1.eof
                     THEN [r1 EXCEPT !.lookahead = Append(@, r1.buffer[r1.pos + 1]),
                                     !.pos = @ + 1]
                     ELSE [r1 EXCEPT !.lookahead = Append(@, NUL)]))

SourceReader_new(code) ==
    fill_lookahead([code |-> code, offset |-> 0, lookahead |-> <<>>,
                    buffer |-> <<>>, count |-> 0, pos |-> 0,
                    span |-> [line |-> 1, column |-> 1], eof |-> FALSE])

current(r) == r.lookahead[1]

SourceReader_next(r) == r.lookahead[2]

\* a variant of next_next: the byte after the current one, once more
next_next_stale(r) == r.lookahead[2]

next_next(r) == r.lookahead[3]

span(r) == r.span

shift(r) ==
    LET sp == IF ~r.eof
              THEN IF current(r) = "\n"
                   THEN [line |-> r.span.line + 1, column |-> 1]
                   ELSE [line |-> r.span.line, column |-> r.span.column + 1]
              ELSE r.span
    IN  fill_lookahead([r EXCEPT !.span = sp, !.lookahead = Tail(@)])

RECURSIVE shift_times(_, _)
shift_times(r, amount) ==
    IF amount = 0 THEN r ELSE shift_times(shift(r), amount - 1)

shift_multiple(r, amount) ==
    IF r.eof THEN r ELSE shift_times(r, amount)


(***************************************************************************)
(* tokenizer.rs: Token and Tokenizer.  A token is [kind, text]: text is    *)
(* the identifier (a string), the literal's text (bytes), the byte of an   *)
(* Error token, and "" otherwise.  A lexer function returns [tok, read].   *)
(* Hang is no token of the program: it stands for a call of next that      *)
(* never returns (read_string at the end of the input).                    *)
(***************************************************************************)
Tk(kind) == [kind |-> kind, text |-> ""]

produce(r, tk) == [tok |-> tk, read |-> shift(r)]

RECURSIVE trim_spaces(_)
trim_spaces(r) ==
    IF is_ascii_whitespace(current(r)) THEN trim_spaces(shift(r)) ELSE r

RECURSIVE trim_comments_line(_)
trim_comments_line(r) ==
    IF current(r) # "\n" /\ current(r) # NUL
    THEN trim_comments_line(shift(r))
    ELSE r

RECURSIVE trim_comments_block(_)
trim_comments_block(r) ==
    IF current(r) = NUL THEN r
    ELSE IF current(r) = "*" /\ SourceReader_next(r) = "/"
         THEN shift_multiple(r, 2)
         ELSE trim_comments_block(shift(r))

RECURSIVE trim_comments(_)
trim_comments(r) ==
    IF current(r) # "/" THEN r
    ELSE IF SourceReader_next(r) = "/"
         THEN trim_comments(trim_spaces(trim_comments_line(shift_multiple(r, 2))))
         ELSE IF SourceReader_next(r) = "*"
              THEN trim_comments(trim_spaces(trim_comments_block(shift_multiple(r, 2))))
              ELSE r

identifier_to_token(id) ==
    CASE id = "auto" -> Tk("Auto") [] id = "break" -> Tk("Break")
      [] id = "case" -> Tk("Case") [] id = "char" -> Tk("Char")
      [] id = "const" -> Tk("Const") [] id = "continue" -> Tk("Continue")
      [] id = "default" -> Tk("Default") [] id = "do" -> Tk("Do")
      [] id = "double" -> Tk("Double") [] id = "else" -> Tk("Else")
      [] id = "enum" -> Tk("Enum") [] id = "extern" -> Tk("Extern")
      [] id = "float" -> Tk("Float") [] id = "for" -> Tk("For")
      [] id = "goto" -> Tk("Goto") [] id = "if" -> Tk("If")
      [] id = "int" -> Tk("Int") [] id = "long" -> Tk("Long")
      [] id = "register" -> Tk("Register") [] id = "return" -> Tk("Return")
      [] id = "short" -> Tk("Short") [] id = "signed" -> Tk("Signed")
      [] id = "sizeof" -> Tk("Sizeof") [] id = "static" -> Tk("Static")
      [] id = "struct" -> Tk("Struct") [] id = "switch" -> Tk("Switch")
      [] id = "typedef" -> Tk("Typedef") [] id = "union" -> Tk("Union")
      [] id = "unsigned" -> Tk("Unsigned") [] id = "void" -> Tk("Void")
      [] id = "volatile" -> Tk("Volatile") [] id = "while" -> Tk("While")
      [] OTHER -> [kind |-> "Identifier", text |-> id]

RECURSIVE read_identifier_loop(_, _)
read_identifier_loop(r, id) ==
    IF current(r) \in LowerCase \cup UpperCase \cup {"_"}
    THEN read_identifier_loop(shift(r), id \o current(r))
    ELSE [tok |-> identifier_to_token(id), read |-> r]

read_identifier(r) == read_identifier_loop(r, "")

\* read_digits, read_exponent and the suffix loops return [id, read].
RECURSIVE read_digits(_, _)
read_digits(r, id) ==
    IF ~is_ascii_digit(current(r)) THEN [id |-> id, read |-> r]
    ELSE read_digits(shift(r), Append(id, current(r)))

read_exponent(r, id) ==
    IF current(r) # "e" /\ current(r) # "E" THEN [id |-> id, read |-> r]
    ELSE Let(shift(r), LAMBDA r1 :
             LET id1 == IF id[Len(id)] = "." THEN Append(id, "0") ELSE id
                 signed == current(r1) = "+" \/ current(r1) = "-"
             IN  read_digits(IF signed THEN shift(r1) ELSE r1,
                             Append(Append(id1, "e"),
                                    IF signed THEN current(r1) ELSE "+")))

RECURSIVE read_integer_suffix(_)
read_integer_suffix(r) ==
    IF current(r) \in {"u", "U", "l", "L"} THEN read_integer_suffix(shift(r)) ELSE r

read_floating_suffix(r) ==
    IF current(r) \in {"f", "F", "l", "L"} THEN shift(r) ELSE r

IntegerLiteral(r, id) ==
    [tok |-> [kind |-> "IntegerLiteral", text |-> id], read |-> read_integer_suffix(r)]

\* the tail of a floating literal after its '.': digits, exponent, one suffix
FloatingLiteral(x) ==
    [tok |-> [kind |-> "FloatingLiteral", text |-> x.id],
     read |-> read_floating_suffix(x.read)]

read_fraction(r, id) ==
    Let(read_digits(r, id), LAMBDA d : FloatingLiteral(read_exponent(d.read, d.id)))

RECURSIVE read_hex_digits(_, _)
read_hex_digits(r, id) ==
    IF current(r) \in Digit \cup HexLetter
    THEN read_hex_digits(shift(r), Append(id, to_ascii_uppercase(current(r))))
    ELSE [id |-> id, read |-> r]

\* the literal after its leading digits d
read_number_tail(d, point) ==
    IF current(d.read) = "."
    THEN read_fraction(shift(d.read), Append(d.id, "."))
    ELSE IF point /\ (current(d.read) = "e" \/ current(d.read) = "E")
    THEN FloatingLiteral(read_exponent(d.read, d.id \o <<".", "0">>))
    ELSE IntegerLiteral(d.read, d.id)

read_number(r) ==
    IF current(r) = "0"
    THEN Let(shift(r), LAMBDA r1 :
         IF current(r1) \in Digit
         THEN \* octal number or decimal starting at 0
              read_number_tail(read_digits(r1, <<"0">>), FALSE)
         ELSE IF current(r1) = "x" \/ current(r1) = "X"
         THEN Let(read_hex_digits(shift(r1), <<"0", "x">>),
                  LAMBDA h : IntegerLiteral(h.read, h.id))
         ELSE IF current(r1) = "."
         THEN read_fraction(shift(r1), <<"0", ".">>)
         ELSE IntegerLiteral(r1, <<"0">>))
    ELSE IF current(r) = "."
    THEN read_fraction(shift(r), <<"0", ".">>)
    ELSE read_number_tail(read_digits(r, <<>>), TRUE)

read_string_escape(c) ==
    CASE c = "0" -> NUL [] c = "n" -> "\n" [] c = "t" -> "\t" [] c = "r" -> "\r"
      [] OTHER -> c

\* Past the end of the input every byte read is 0 and the loop never ends.
RECURSIVE read_string_loop(_, _)
read_string_loop(r, content) ==
    IF r.eof /\ r.lookahead = <<NUL, NUL, NUL>>
    THEN [tok |-> Tk("Hang"), read |-> r]
    ELSE IF current(r) = "\""
    THEN [tok |-> [kind |-> "StringLiteral", text |-> content], read |-> shift(r)]
    ELSE IF current(r) = "\\"
    THEN Let(shift(r), LAMBDA r1 :
             read_string_loop(shift(r1),
                              Append(content, read_string_escape(current(r1)))))
    ELSE read_string_loop(shift(r), Append(content, current(r)))

read_string(r) == read_string_loop(shift(r), <<>>)

Tokenizer_symbol(r) ==
    LET c == current(r)
        n == SourceReader_next(r)
        nn == next_next(r)
    IN
    CASE c = "." ->
           IF n \in Digit THEN read_number(r)
           ELSE IF n = "." /\ nn = "."
                THEN produce(shift_multiple(r, 2), Tk("Ellipsis"))
                ELSE produce(r, Tk("Dot"))
      [] c = "\"" -> read_string(r)
      [] c = "(" -> produce(r, Tk("LeftParen"))
      [] c = ")" -> produce(r, Tk("RightParen"))
      [] c = "{" -> produce(r, Tk("LeftBrace"))
      [] c = "}" -> produce(r, Tk("RightBrace"))
      [] c = "[" -> produce(r, Tk("LeftBracket"))
      [] c = "]" -> produce(r, Tk("RightBracket"))
      [] c = "~" -> produce(r, Tk("Tilde"))
      [] c = "?" -> produce(r, Tk("QuestionMark"))
      [] c = "<" ->
           IF n = "<" /\ nn = "=" THEN produce(shift_multiple(r, 2), Tk("LeftAssign"))
           ELSE IF n = "<" THEN produce(shift(r), Tk("LeftShift"))
           ELSE IF n = "=" THEN produce(shift(r), Tk("LessEquals"))
           ELSE produce(r, Tk("Less"))
      [] c = ">" ->
           IF n = ">" /\ nn = "=" THEN produce(shift_multiple(r, 2), Tk("RightAssign"))
           ELSE IF n = ">" THEN produce(shift(r), Tk("RightShift"))
           ELSE IF n = "=" THEN produce(shift(r), Tk("GreaterEquals"))
           ELSE produce(r, Tk("Greater"))
      [] c = ";" -> produce(r, Tk("Semicolon"))
      [] c = ":" -> produce(r, Tk("Colon"))
      [] c = "," -> produce(r, Tk("Comma"))
      [] c = "=" ->
           IF n = "=" THEN produce(shift(r), Tk("Equals"))
           ELSE produce(r, Tk("Assign"))
      [] c = "!" ->
           IF n = "=" THEN produce(shift(r), Tk("NotEquals"))
           ELSE produce(r, Tk("Not"))
      [] c = "@" -> produce(r, Tk("At"))
      [] c = "#" -> produce(r, Tk("Hash"))
      [] c = "$" -> produce(r, Tk("Dollar"))
      [] c = "%" ->
           IF n = "=" THEN produce(shift(r), Tk("PercentAssign"))
           ELSE produce(r, Tk("Percent"))
      [] c = "^" ->
           IF n = "=" THEN produce(shift(r), Tk("XorAssign"))
           ELSE produce(r, Tk("Xor"))
      [] c = "&" ->
           IF n = "=" THEN produce(shift(r), Tk("AndAssign"))
           ELSE IF n = "&" THEN produce(shift(r), Tk("And"))
           ELSE produce(r, Tk("Ampersand"))
      [] c = "|" ->
           IF n = "=" THEN produce(shift(r), Tk("OrAssign"))
           ELSE IF n = "|" THEN produce(shift(r), Tk("Or"))
           ELSE produce(r, Tk("Pipe"))
      [] c = "*" ->
           IF n = "=" THEN produce(shift(r), Tk("TimesAssign"))
           ELSE produce(r, Tk("Times"))
      [] c = "/" ->
           IF n = "=" THEN produce(shift(r), Tk("DivAssign"))
           ELSE produce(r, Tk("Div"))
      [] c = "-" ->
           IF n = "=" THEN produce(shift(r), Tk("MinusAssign"))
           ELSE IF n = "-" THEN produce(shift(r), Tk("MinusMinus"))
           ELSE IF n = ">" THEN produce(shift(r), Tk("Pointer"))
           ELSE produce(r, Tk("Minus"))
      [] c = "+" ->
           IF n = "=" THEN produce(shift(r), Tk("PlusAssign"))
           ELSE IF n = "+" THEN produce(shift(r), Tk("PlusPlus"))
           ELSE produce(r, Tk("Plus"))
      [] c = NUL -> produce(r, Tk("Eof"))
      [] OTHER -> produce(r, [kind |-> "Error", text |-> c])

\* next: [tok, span, read], span being <<start, end>>
Tokenizer_next(r) ==
    Let(trim_comments(trim_spaces(r)), LAMBDA r1 :
    Let(IF current(r1) \in LowerCase \cup UpperCase \cup {"_"}
        THEN read_identifier(r1)
        ELSE IF current(r1) \in Digit
             THEN read_number(r1)
             ELSE Tokenizer_symbol(r1),
        LAMBDA ty :
            [tok |-> ty.tok, span |-> <<span(r1), span(ty.read)>>, read |-> ty.read]))

Tokenizer_new(reader) == reader

(***************************************************************************)
(* Literal conversion: str::parse::<i32> and str::parse::<f32> as the      *)
(* parser calls them (parser.rs 373, 376).  Each returns [ok, value].  A   *)
(* float is kept as its exact decimal [neg, digits, exp]: the integer      *)
(* written by digits (no leading, no trailing zero) times 10^exp.  The     *)
(* rounding to f32 is left out.                                            *)
(***************************************************************************)
I32_MAX == 2147483647

AllDigits(text) == \A i \in 1..Len(text) : text[i] \in Digit

RECURSIVE ParseI32Loop(_, _, _)
ParseI32Loop(text, i, acc) ==
    IF i > Len(text) THEN [ok |-> TRUE, value |-> acc]
    ELSE LET d == DigitValue(text[i]) IN
         IF acc > (I32_MAX - d) \div 10
         THEN [ok |-> FALSE, value |-> 0]
         ELSE ParseI32Loop(text, i + 1, acc * 10 + d)

ParseI32(text) ==
    IF Len(text) = 0 \/ ~AllDigits(text)
    THEN [ok |-> FALSE, value |-> 0]
    ELSE ParseI32Loop(text, 1, 0)

IndexOf(text, c) ==
    IF \E i \in 1..Len(text) : text[i] = c
    THEN CHOOSE i \in 1..Len(text) : text[i] = c /\ \A j \in 1..(i - 1) : text[j] # c
    ELSE 0

RECURSIVE StripLeadingZeros(_)
StripLeadingZeros(ds) ==
    IF Len(ds) > 0 /\ ds[1] = "0" THEN StripLeadingZeros(Tail(ds)) ELSE ds

RECURSIVE TrailingZeros(_)
TrailingZeros(ds) ==
    IF Len(ds) > 0 /\ ds[Len(ds)] = "0"
    THEN 1 + TrailingZeros(SubSeq(ds, 1, Len(ds) - 1))
    ELSE 0

\* the exponent's value, saturated: six digits are beyond every f32
ExponentValue(ds) ==
    LET sig == StripLeadingZeros(ds)
    IN  IF Len(sig) > 6 THEN 999999 ELSE ParseI32Loop(sig, 1, 0).value

ParseF32(text) ==
    LET ePos == IndexOf(text, "e")
        mantissa == IF ePos = 0 THEN text ELSE SubSeq(text, 1, ePos - 1)
        expo == IF ePos = 0 THEN <<>> ELSE SubSeq(text, ePos + 1, Len(text))
        expSigned == Len(expo) > 0 /\ expo[1] \in {"+", "-"}
        expDigits == IF expSigned THEN Tail(expo) ELSE expo
        dot == IndexOf(mantissa, ".")
        intPart == IF dot = 0 THEN mantissa ELSE SubSeq(mantissa, 1, dot - 1)
        fracPart == IF dot = 0 THEN <<>> ELSE SubSeq(mantissa, dot + 1, Len(mantissa))
        valid == /\ AllDigits(intPart) /\ AllDigits(fracPart)
                 /\ Len(intPart) + Len(fracPart) >= 1
                 /\ ePos = 0 \/ (Len(expDigits) >= 1 /\ AllDigits(expDigits))
        all == StripLeadingZeros(intPart \o fracPart)
        tz == TrailingZeros(all)
        e10 == IF ePos = 0 THEN 0
               ELSE IF expSigned /\ expo[1] = "-"
                    THEN 0 - ExponentValue(expDigits)
                    ELSE ExponentValue(expDigits)
    IN  IF ~valid THEN [ok |-> FALSE, value |-> 0]
        ELSE IF Len(all) = 0
             THEN [ok |-> TRUE, value |-> [neg |-> FALSE, digits |-> <<>>, exp |-> 0]]
             ELSE [ok |-> TRUE,
                   value |-> [neg |-> FALSE,
                              digits |-> SubSeq(all, 1, Len(all) - tz),
                              exp |-> e10 - Len(fracPart) + tz]]

(***************************************************************************)
(* parser.rs: Parser.  p is [tk, lookahead]: the tokenizer and the queue   *)
(* of tokens read ahead, each [tok, span].  The code fills the queue from  *)
(* tk.next() when a peek finds it short; tk.next() does not depend on the  *)
(* parser, so the queue here holds from the start all the tokens up to the *)
(* first Eof (or Hang).  That last token is never dropped: past the end of *)
(* the input tk.next() returns the same Eof, at the same span, again.      *)
(* A parse function returns [ok, val, p]: val is the tree, or the error    *)
(* when ok is FALSE.  [err |-> "Panic"] is the unwrap of a failed literal  *)
(* conversion: an abort, not a ParseError.                                 *)
(***************************************************************************)
\* one tk.next() pushed at the back of the queue; full once it is Eof (Hang)
Parser_fill_one(p) ==
    Let(Tokenizer_next(p.tk), LAMBDA t :
        [tk |-> t.read,
         lookahead |-> Append(p.lookahead, [tok |-> t.tok, span |-> t.span]),
         full |-> t.tok.kind \in {"Eof", "Hang"}])

\* at most n tokens more, stopping at the full queue.  The n pulls are
\* split in halves so that the evaluation nests log n deep, not n deep.
RECURSIVE Parser_fill(_, _)
Parser_fill(p, n) ==
    IF p.full \/ n = 0 THEN p
    ELSE IF n = 1 THEN Parser_fill_one(p)
    ELSE Parser_fill(Parser_fill(p, n \div 2), n - (n \div 2))

\* a token other than Eof takes at least one byte of the input
Parser_new(tk) ==
    Parser_fill([tk |-> tk, lookahead |-> <<>>, full |-> FALSE], Len(tk.code) + 1)

Parser_current(p) == p.lookahead[1].tok

Parser_current_pos(p) == p.lookahead[1].span

Parser_at(p, offset) == p.lookahead[Min(offset + 1, Len(p.lookahead))].tok

Parser_next(p) ==
    IF Len(p.lookahead) = 1 THEN p ELSE [p EXCEPT !.lookahead = Tail(@)]

\* pop: [tok, span, p]
Parser_pop(p) ==
    [tok |-> Parser_current(p), span |-> Parser_current_pos(p), p |-> Parser_next(p)]

RECURSIVE Parser_next_times(_, _)
Parser_next_times(p, n) ==
    IF n = 0 THEN p ELSE Parser_next_times(Parser_next(p), n - 1)

Ok(v, p) == [ok |-> TRUE, val |-> v, p |-> p]

Err(e, p) == [ok |-> FALSE, val |-> e, p |-> p]

\* the operator ? of the code: the error of r, or F of the success r
Try(r, F(_)) == IF r.ok THEN F(r) ELSE r

expect(p, kind) ==
    IF Parser_current(p).kind # kind
    THEN Err([err |-> "Expected", expected |-> kind,
              found |-> Parser_current(p), span |-> Parser_current_pos(p)], p)
    ELSE Ok(TRUE, Parser_next(p))

\* skip: [skipped, p]
skip(p, kind) ==
    IF Parser_current(p).kind # kind
    THEN [skipped |-> FALSE, p |-> p]
    ELSE [skipped |-> TRUE, p |-> Parser_next(p)]

expect_id(p) ==
    LET t == Parser_pop(p)
    IN  IF t.tok.kind = "Identifier"
        THEN Ok(t.tok.text, t.p)
        ELSE Err([err |-> "ExpectedId", found |-> t.tok, span |-> t.span], t.p)

expression_first(p) ==
    Parser_current(p).kind \in
        {"IntegerLiteral", "FloatingLiteral", "StringLiteral", "Identifier",
         "Minus", "Plus", "Not", "Return", "LeftBrace", "LeftParen", "LeftBracket"}

RECURSIVE parse_statement(_), parse_expression(_), parse_expression_6(_),
          parse_expression_5(_), parse_expression_4(_), parse_expression_3(_),
          parse_expression_2(_), parse_expression_1(_), parse_expression_0(_),
          parse_expression_base(_), parse_operand(_, _), parse_binary(_, _)

RECURSIVE parse_program_loop(_, _)
parse_program_loop(p, statements) ==
    IF Parser_current(p).kind = "Eof"
    THEN Ok([statements |-> statements], p)
    ELSE Try(parse_statement(p),
             LAMBDA s : parse_program_loop(skip(s.p, "Semicolon").p,
                                           Append(statements, s.val)))

parse_program(p) == parse_program_loop(p, <<>>)

parse_variable(p) ==
    Try(expect_id(p), LAMBDA name :
    Try(expect(name.p, "Assign"), LAMBDA eq :
    Try(parse_expression(eq.p), LAMBDA value :
    Ok([name |-> name.val, value |-> value.val], value.p))))

RECURSIVE parse_typedef_variant_loop(_, _)
parse_typedef_variant_loop(p, properties) ==
    Try(expect_id(p), LAMBDA prop :
        LET props == Append(properties, prop.val)
            c == Parser_current(prop.p).kind
        IN  IF c = "Comma"
            THEN Let(skip(Parser_next(prop.p), "RightParen"), LAMBDA s :
                     IF s.skipped THEN Ok(props, s.p)
                     ELSE parse_typedef_variant_loop(s.p, props))
            ELSE IF c = "RightParen"
            THEN Ok(props, Parser_next(prop.p))
            ELSE Err([err |-> "Expected", expected |-> "RightParen",
                      found |-> Parser_current(prop.p),
                      span |-> Parser_current_pos(prop.p)], prop.p))

parse_typedef_variant(p) ==
    Try(expect_id(p), LAMBDA name :
    Let(skip(name.p, "LeftParen"), LAMBDA s :
        IF ~s.skipped
        THEN Ok([name |-> name.val, properties |-> <<>>], s.p)
        ELSE Try(parse_typedef_variant_loop(s.p, <<>>), LAMBDA props :
                 Ok([name |-> name.val, properties |-> props.val], props.p))))

RECURSIVE parse_typedef_loop(_, _)
parse_typedef_loop(p, variants) ==
    Try(parse_typedef_variant(p), LAMBDA variant :
        IF Parser_current(variant.p).kind # "Pipe"
        THEN Ok(Append(variants, variant.val), variant.p)
        ELSE parse_typedef_loop(Parser_next(variant.p), Append(variants, variant.val)))

parse_typedef(p) ==
    Try(expect(p, "Typedef"), LAMBDA kw :
    Try(expect_id(kw.p), LAMBDA name :
    Try(expect(name.p, "Assign"), LAMBDA eq :
    Try(parse_typedef_loop(eq.p, <<>>), LAMBDA variants :
    Ok([name |-> name.val, variants |-> variants.val], variants.p)))))

RECURSIVE skip_semicolons(_)
skip_semicolons(p) ==
    IF Parser_current(p).kind = "Semicolon" THEN skip_semicolons(Parser_next(p)) ELSE p

\* parse_statement after its leading semicolons
parse_statement_at(p) ==
    IF Parser_at(p, 0).kind = "Identifier" /\ Parser_at(p, 1).kind = "Assign"
    THEN Try(parse_variable(p), LAMBDA v :
             Ok([s |-> "Variable", name |-> v.val.name, value |-> v.val.value], v.p))
    ELSE IF Parser_at(p, 0).kind = "Typedef"
    THEN Try(parse_typedef(p), LAMBDA d :
             Ok([s |-> "TypeDef", name |-> d.val.name, variants |-> d.val.variants],
                d.p))
    ELSE Try(parse_expression(p), LAMBDA x :
             Ok([s |-> "Expression", expr |-> x.val], x.p))

parse_statement(p) == parse_statement_at(skip_semicolons(p))


\* the operator a token stands for at one level of the binary grammar
binary_operator(level, kind) ==
    CASE level = 6 /\ kind = "And" -> "And"
      [] level = 6 /\ kind = "Or" -> "Or"
      [] level = 6 /\ kind = "Xor" -> "Xor"
      [] level = 5 /\ kind = "Equals" -> "Equals"
      [] level = 5 /\ kind = "NotEquals" -> "NotEquals"
      [] level = 4 /\ kind = "Less" -> "Less"
      [] level = 4 /\ kind = "Greater" -> "Greater"
      [] level = 4 /\ kind = "LessEquals" -> "LessEquals"
      [] level = 4 /\ kind = "GreaterEquals" -> "GreaterEquals"
      [] level = 3 /\ kind = "Plus" -> "Plus"
      [] level = 3 /\ kind = "Minus" -> "Minus"
      [] level = 2 /\ kind = "Times" -> "Times"
      [] level = 2 /\ kind = "Div" -> "Div"
      [] level = 2 /\ kind = "Percent" -> "Rem"
      [] level = 1 /\ kind = "Ampersand" -> "BiteAnd"
      [] level = 1 /\ kind = "Pipe" -> "BiteOr"
      [] OTHER -> "none"

\* the operand parser of a level: the next lower level
parse_operand(level, p) ==
    IF level = 1 THEN parse_expression_0(p) ELSE parse_binary(level - 1, p)

\* the loop shared by parse_expression_6 .. parse_expression_1
RECURSIVE parse_binary_loop(_, _, _)
parse_binary_loop(level, expr, p) ==
    Let(binary_operator(level, Parser_current(p).kind), LAMBDA op :
        IF op = "none" THEN Ok(expr, p)
        ELSE Try(parse_operand(level, Parser_next(p)), LAMBDA right :
                 parse_binary_loop(level,
                                   [e |-> "Operator", operator |-> op,
                                    left |-> expr, right |-> right.val],
                                   right.p)))

\* Each of parse_expression_6 .. parse_expression_1 begins by the level below
\* it, `let mut expr = self.parse_expression_5()?`, so the first thing any of
\* them parses is a parse_expression_0 and the loops of the levels then run
\* from level 1 upwards, each on what the level below returned; an error of a
\* level is the result of all the levels above it.  parse_levels runs the
\* loops of level .. top on the result r of the level below.
RECURSIVE parse_levels(_, _, _)
parse_levels(r, level, top) ==
    IF ~r.ok \/ level > top THEN r
    ELSE parse_levels(parse_binary_loop(level, r.val, r.p), level + 1, top)

parse_binary(level, p) == parse_levels(parse_expression_0(p), 1, level)

\* parse_expression is parse_expression_6
parse_expression(p) == parse_levels(parse_expression_0(p), 1, 6)

parse_expression_6(p) == parse_binary(6, p)

parse_expression_5(p) == parse_binary(5, p)

parse_expression_4(p) == parse_binary(4, p)

parse_expression_3(p) == parse_binary(3, p)

parse_expression_2(p) == parse_binary(2, p)

parse_expression_1(p) == parse_binary(1, p)

\* the arguments after `expr . name`: no comma is skipped between them
RECURSIVE parse_dot_args(_, _)
parse_dot_args(p, args) ==
    IF Parser_current(p).kind # "Dot" /\ Parser_current(p).kind # "Eof"
       /\ expression_first(p)
    THEN Try(parse_expression(p), LAMBDA a : parse_dot_args(a.p, Append(args, a.val)))
    ELSE Ok(args, p)

RECURSIVE parse_expression_0_loop(_, _)
parse_expression_0_loop(expr, p) ==
    Let(skip(p, "Dot"), LAMBDA s :
        IF ~s.skipped THEN Ok(expr, p)
        ELSE Try(expect_id(s.p), LAMBDA name :
             Try(parse_dot_args(name.p, <<expr>>), LAMBDA args :
             parse_expression_0_loop(
                 [e |-> "FunCall", name |-> name.val, args |-> args.val], args.p))))

parse_expression_0(p) ==
    Try(parse_expression_base(p), LAMBDA base : parse_expression_0_loop(base.val, base.p))

\* the arguments of a bare call: the loop ends after an argument that no
\* comma follows
RECURSIVE parse_call_args(_, _)
parse_call_args(p, args) ==
    IF Parser_current(p).kind # "Dot" /\ Parser_current(p).kind # "Eof"
       /\ expression_first(p)
    THEN Try(parse_expression(p), LAMBDA a :
         Let(skip(a.p, "Comma"), LAMBDA s :
             IF ~s.skipped THEN Ok(Append(args, a.val), s.p)
             ELSE parse_call_args(s.p, Append(args, a.val))))
    ELSE Ok(args, p)

\* a variant of parse_lambda_args: the names met stay when the scan is given up
RECURSIVE parse_lambda_args_keep(_, _, _)
parse_lambda_args_keep(p, index, args) ==
    Let(Parser_at(p, index), LAMBDA next :
        IF next.kind = "Identifier"
        THEN Let(Parser_at(p, index + 1), LAMBDA sep :
                 IF sep.kind = "Pipe"
                 THEN [args |-> Append(args, next.text),
                       p |-> Parser_next_times(p, index + 2)]
                 ELSE IF sep.kind # "Comma"
                      THEN [args |-> Append(args, next.text), p |-> p]
                      ELSE parse_lambda_args_keep(p, index + 2, Append(args, next.text)))
        ELSE [args |-> args, p |-> p])

\* the scan for `a, b, c |` after `{`: [args, p]
RECURSIVE parse_lambda_args(_, _, _)
parse_lambda_args(p, index, args) ==
    Let(Parser_at(p, index), LAMBDA next :
        IF next.kind = "Identifier"
        THEN Let(Parser_at(p, index + 1), LAMBDA sep :
                 IF sep.kind = "Pipe"
                 THEN [args |-> Append(args, next.text),
                       p |-> Parser_next_times(p, index + 2)]
                 ELSE IF sep.kind # "Comma"
                      THEN [args |-> <<>>, p |-> p]
                      ELSE parse_lambda_args(p, index + 2, Append(args, next.text)))
        ELSE [args |-> <<>>, p |-> p])

RECURSIVE parse_lambda_code(_, _)
parse_lambda_code(p, code) ==
    IF Parser_current(p).kind = "RightBrace" THEN Ok(code, Parser_next(p))
    ELSE IF Parser_current(p).kind = "Eof" THEN Err([err |-> "EOF"], p)
    ELSE Try(parse_statement(p), LAMBDA stm :
             parse_lambda_code(IF Parser_current(stm.p).kind = "Comma"
                               THEN Parser_next(stm.p) ELSE stm.p,
                               Append(code, stm.val)))

\* the elements of ( ... ) and of [ ... ], up to the closing token
RECURSIVE parse_elements(_, _, _)
parse_elements(p, close, values) ==
    IF Parser_current(p).kind = close THEN Ok(values, Parser_next(p))
    ELSE IF Parser_current(p).kind = "Eof" THEN Err([err |-> "EOF"], p)
    ELSE Try(parse_expression(p), LAMBDA x :
             parse_elements(IF Parser_current(x.p).kind = "Comma"
                            THEN Parser_next(x.p) ELSE x.p,
                            close, Append(values, x.val)))

\* a variant of tuple_of: a Tuple whatever the number of values
tuple_of_always(values, p) == Ok([e |-> "Tuple", values |-> values], p)

\* what ( ... ) stands for: its one value, or the Tuple of its values
tuple_of(values, p) ==
    IF Len(values) = 1 THEN Ok(values[1], p)
    ELSE Ok([e |-> "Tuple", values |-> values], p)

parse_unary(operator, p) ==
    Try(parse_expression(p), LAMBDA x :
        Ok([e |-> "UnaryOperator", operator |-> operator, expr |-> x.val], x.p))

\* the conversion of a literal's text: a value, or the panic of the unwrap
parse_literal(v, e, what, p) ==
    IF v.ok THEN Ok([e |-> e, value |-> v.value], p)
    ELSE Err([err |-> "Panic", what |-> what], p)

parse_expression_token(t) ==
    LET token == t.tok
        p == t.p
    IN
    CASE token.kind = "Minus" -> parse_unary("Minus", p)
      [] token.kind = "Plus" -> parse_unary("Plus", p)
      [] token.kind = "Not" -> parse_unary("Not", p)
      [] token.kind = "IntegerLiteral" ->
           parse_literal(ParseI32(token.text), "Int", "ParseIntError", p)
      [] token.kind = "FloatingLiteral" ->
           parse_literal(ParseF32(token.text), "Float", "ParseFloatError", p)
      [] token.kind = "StringLiteral" -> Ok([e |-> "String", value |-> token.text], p)
      [] token.kind = "Identifier" ->
           Try(parse_call_args(p, <<>>), LAMBDA args :
               Ok([e |-> "FunCall", name |-> token.text, args |-> args.val], args.p))
      [] token.kind = "Return" ->
           Try(parse_expression(p), LAMBDA x : Ok([e |-> "Return", value |-> x.val], x.p))
      [] token.kind = "LeftBrace" ->
           Let(parse_lambda_args(p, 0, <<>>), LAMBDA a :
           Try(parse_lambda_code(a.p, <<>>), LAMBDA code :
               Ok([e |-> "Lambda", args |-> a.args, code |-> code.val], code.p)))
      [] token.kind = "LeftParen" ->
           Try(parse_elements(p, "RightParen", <<>>), LAMBDA values :
               tuple_of(values.val, values.p))
      [] token.kind = "LeftBracket" ->
           Try(parse_elements(p, "RightBracket", <<>>), LAMBDA items :
               Ok([e |-> "List", items |-> items.val], items.p))
      [] OTHER -> Err([err |-> "UnexpectedToken", found |-> token, span |-> t.span], p)

parse_expression_base(p) == parse_expression_token(Parser_pop(p))

(***************************************************************************)
(* run.rs: the compiled program.  A HashMap is a function on its keys.     *)
(* CompiledFunction is [args, code, functions, instance_classes]; an Inst  *)
(* is [op, ...]; InstanceClass is [id, typedef, variant, properties].      *)
(***************************************************************************)
EmptyMap == <<>>

MapPut(m, k, v) == [x \in DOMAIN m \cup {k} |-> IF x = k THEN v ELSE m[x]]

CompiledFunction(args) ==
    [args |-> args, code |-> <<>>, functions |-> EmptyMap, instance_classes |-> EmptyMap]

Inst_Set(name) == [op |-> "Set", name |-> name]
Inst_Int(value) == [op |-> "Int", value |-> value]
Inst_Float(value) == [op |-> "Float", value |-> value]
Inst_String(value) == [op |-> "String", value |-> value]
Inst_Call(name) == [op |-> "Call", name |-> name]
Inst_List(items) == [op |-> "List", items |-> items]
Inst_Tuple(items) == [op |-> "Tuple", items |-> items]
Inst_Function(func) == [op |-> "Function", func |-> func]
Inst_Return == [op |-> "Return"]

(***************************************************************************)
(* compiler.rs: Compiler.  The state threaded through a compilation is c = *)
(* [next_id, node, declared]: the compiler's counter, the function being   *)
(* filled, and (a history variable, not in the code) the parameter names   *)
(* each lambda id was declared with.                                       *)
(***************************************************************************)
Compiler_new == [next_id |-> 0]

push_code(c, inst) == [c EXCEPT !.node.code = Append(@, inst)]

Reverse(q) == [i \in 1..Len(q) |-> q[Len(q) + 1 - i]]

unary_operator_name(operator) ==
    CASE operator = "Plus" -> "unary_plus"
      [] operator = "Minus" -> "unary_minus"
      [] operator = "Not" -> "unary_not"

operator_name(operator) ==
    CASE operator = "BiteAnd" -> "&" [] operator = "BiteOr" -> "|"
      [] operator = "Plus" -> "+" [] operator = "Minus" -> "-"
      [] operator = "Times" -> "*" [] operator = "Div" -> "/"
      [] operator = "Rem" -> "%" [] operator = "Less" -> "<"
      [] operator = "Greater" -> ">" [] operator = "LessEquals" -> "<="
      [] operator = "GreaterEquals" -> ">=" [] operator = "And" -> "&&"
      [] operator = "Or" -> "||" [] operator = "Xor" -> "^"
      [] operator = "Equals" -> "==" [] operator = "NotEquals" -> "!="

\* a variant of lambda_prologue: the parameters in the order declared
lambda_prologue_in_order(args) == [i \in 1..Len(args) |-> Inst_Set(args[i])]

\* the prologue of a lambda: one Set per parameter, the last declared first
lambda_prologue(args) == [i \in 1..Len(args) |-> Inst_Set(Reverse(args)[i])]

RECURSIVE compile_statement(_, _), compile_expression(_, _)

\* c is the compiler with the function it writes into: [next_id, node,
\* declared, ok].  ok is the Result every compile function returns and the
\* caller tests with `?` before it goes on; CompileError has no variant, so
\* ok is never FALSE.
RECURSIVE compile_statements(_, _)
compile_statements(c, stms) ==
    IF ~c.ok \/ Len(stms) = 0 THEN c
    ELSE compile_statements(compile_statement(c, Head(stms)), Tail(stms))

RECURSIVE compile_expressions(_, _)
compile_expressions(c, exprs) ==
    IF ~c.ok \/ Len(exprs) = 0 THEN c
    ELSE compile_expressions(compile_expression(c, Head(exprs)), Tail(exprs))

\* the variants of one TypeDef: each takes the next id
RECURSIVE compile_variants(_, _, _)
compile_variants(c, def, i) ==
    IF i > Len(def.variants) THEN c
    ELSE LET variant == def.variants[i]
             class == [id |-> c.next_id,
                       typedef |-> [name |-> def.name, variants |-> def.variants],
                       variant |-> variant.name,
                       properties |-> variant.properties]
         IN  compile_variants(
                 [c EXCEPT !.next_id = @ + 1,
                           !.node.instance_classes = MapPut(@, variant.name, class)],
                 def, i + 1)

compile_statement(c, stm) ==
    CASE stm.s = "Variable" ->
           push_code(compile_expression(c, stm.value), Inst_Set(stm.name))
      [] stm.s = "Expression" -> compile_expression(c, stm.expr)
      [] stm.s = "TypeDef" -> compile_variants(c, stm, 1)

\* a variant of compile_lambda: the counter stays at the id it handed out
compile_lambda_same_id(c, expr) ==
    LET lambda == [CompiledFunction(Len(expr.args))
                      EXCEPT !.code = lambda_prologue(expr.args)]
        body == compile_statements([c EXCEPT !.node = lambda], expr.code)
        id == body.next_id
    IN  [next_id |-> id,
         node |-> [c.node EXCEPT !.functions = MapPut(@, id, body.node),
                                 !.code = Append(@, Inst_Function(id))],
         declared |-> MapPut(body.declared, id, expr.args),
         ok |-> body.ok]

compile_lambda(c, expr) ==
    LET lambda == [CompiledFunction(Len(expr.args))
                      EXCEPT !.code = lambda_prologue(expr.args)]
        body == compile_statements([c EXCEPT !.node = lambda], expr.code)
        id == body.next_id
    IN  [next_id |-> id + 1,
         node |-> [c.node EXCEPT !.functions = MapPut(@, id, body.node),
                                 !.code = Append(@, Inst_Function(id))],
         declared |-> MapPut(body.declared, id, expr.args),
         ok |-> body.ok]

compile_expression(c, expr) ==
    CASE expr.e = "UnaryOperator" ->
           push_code(compile_expression(c, expr.expr),
                     Inst_Call(unary_operator_name(expr.operator)))
      [] expr.e = "Int" -> push_code(c, Inst_Int(expr.value))
      [] expr.e = "Float" -> push_code(c, Inst_Float(expr.value))
      [] expr.e = "String" -> push_code(c, Inst_String(expr.value))
      [] expr.e = "FunCall" ->
           push_code(compile_expressions(c, expr.args), Inst_Call(expr.name))
      [] expr.e = "Operator" ->
           push_code(compile_expression(compile_expression(c, expr.left), expr.right),
                     Inst_Call(operator_name(expr.operator)))
      [] expr.e = "List" ->
           push_code(compile_expressions(c, expr.items), Inst_List(Len(expr.items)))
      [] expr.e = "Tuple" ->
           push_code(compile_expressions(c, expr.values), Inst_Tuple(Len(expr.values)))
      [] expr.e = "Lambda" -> compile_lambda(c, expr)
      [] expr.e = "Return" ->
           push_code(compile_expression(c, expr.value), Inst_Return)

\* compile: [root_function, next_id, declared]
compile(compiler, program) ==
    LET c == compile_statements([next_id |-> compiler.next_id,
                                 node |-> CompiledFunction(0),
                                 declared |-> EmptyMap,
                                 ok |-> TRUE],
                                program.statements)
    IN  [root_function |-> c.node, next_id |-> c.next_id, declared |-> c.declared]

(***************************************************************************)
(* run.rs: Value.  [t |-> "Unit"], [t |-> "Int", v], [t |-> "Float", v],   *)
(* [t |-> "String", v], [t |-> "List", v], [t |-> "Tuple", v],             *)
(* [t |-> "Function", func], [t |-> "Instance", class, properties].        *)
(***************************************************************************)
Value_Unit == [t |-> "Unit"]
Value_Int(v) == [t |-> "Int", v |-> v]
Value_Float(v) == [t |-> "Float", v |-> v]
Value_String(v) == [t |-> "String", v |-> v]
Value_List(v) == [t |-> "List", v |-> v]
Value_Tuple(v) == [t |-> "Tuple", v |-> v]
Value_Function(func) == [t |-> "Function", func |-> func]
Value_Instance(class, properties) ==
    [t |-> "Instance", class |-> class, properties |-> properties]

None == [some |-> FALSE]
Some(v) == [some |-> TRUE, value |-> v]

StackUnderflow == [e |-> "StackUnderflow"]
UndefinedName(name) == [e |-> "UndefinedName", name |-> name]
Custom(msg) == [e |-> "Custom", msg |-> msg]

(***************************************************************************)
(* runtime.rs: Runtime, the registry of natives.  A native function is     *)
(* registered as [args, func], func naming one of the closures of          *)
(* builtins.rs.                                                            *)
(***************************************************************************)
Runtime_new ==
    [builtin_functions |-> EmptyMap,
     builtin_instance_classes |-> EmptyMap,
     builtin_id_to_class |-> EmptyMap,
     next_id |-> 100000]

register_func(rt, name, args, func) ==
    [rt EXCEPT !.builtin_functions = MapPut(@, name, [args |-> args, func |-> func])]

RECURSIVE register_type_loop(_, _, _)
register_type_loop(rt, def, i) ==
    IF i > Len(def.variants) THEN rt
    ELSE LET variant == def.variants[i]
             class == [id |-> rt.next_id, typedef |-> def,
                       variant |-> variant.name, properties |-> variant.properties]
         IN  register_type_loop(
                 [rt EXCEPT !.next_id = @ + 1,
                            !.builtin_id_to_class = MapPut(@, class.id, class),
                            !.builtin_instance_classes = MapPut(@, variant.name, class)],
                 def, i + 1)

register_type(rt, def) == register_type_loop(rt, def, 1)

register_builtins(rt) ==
    register_type(
        register_func(
            register_func(
                register_func(rt, "print", 1, "print"),
                "unary_minus", 1, "unary_minus"),
            "unary_plus", 1, "unary_plus"),
        [name |-> "Boolean",
         variants |-> <<[name |-> "True", properties |-> <<>>],
                        [name |-> "False", properties |-> <<>>]>>])

\* the closures of builtins.rs: [k, value, err, out], k being "ok", "err" or
\* "panic" (the unwrap of the first argument when there is none), out what
\* the call prints
native_call(func, args) ==
    LET r == [k |-> "ok", value |-> Value_Unit, err |-> [e |-> "none"], out |-> <<>>] IN
    IF Len(args) = 0 THEN [r EXCEPT !.k = "panic"]
    ELSE LET param == args[1] IN
         CASE func = "print" -> [r EXCEPT !.value = param, !.out = <<param>>]
           [] func = "unary_minus" ->
                IF param.t = "Int" THEN [r EXCEPT !.value = Value_Int(0 - param.v)]
                ELSE IF param.t = "Float"
                THEN [r EXCEPT !.value = Value_Float([param.v EXCEPT !.neg = ~@])]
                ELSE [r EXCEPT !.k = "err",
                               !.err = Custom("Unable to negate non numeric value")]
           [] func = "unary_plus" ->
                IF param.t = "Int" \/ param.t = "Float" THEN [r EXCEPT !.value = param]
                ELSE [r EXCEPT !.k = "err",
                               !.err = Custom("Unable to use unary plus on non numeric value")]

(***************************************************************************)
(* runtime.rs: Env, the stack of frames, the innermost last.  A StackFrame *)
(* is [variables, functions, instance_classes, id_to_class].               *)
(***************************************************************************)
Env_new == <<>>

RECURSIVE Env_get_from(_, _, _)
Env_get_from(env, name, i) ==
    IF i = 0 THEN None
    ELSE IF name \in DOMAIN env[i].variables
         THEN Some(env[i].variables[name])
         ELSE Env_get_from(env, name, i - 1)

\* a variant of Env_get: the innermost frame only
Env_get_innermost(env, name) ==
    IF Len(env) > 0 /\ name \in DOMAIN env[Len(env)].variables
    THEN Some(env[Len(env)].variables[name])
    ELSE None

Env_get(env, name) == Env_get_from(env, name, Len(env))

\* a variant of Env_set: the bottom frame, the one of the root function
Env_set_bottom(env, name, value) ==
    IF Len(env) = 0 THEN env
    ELSE [env EXCEPT ![1].variables = MapPut(@, name, value)]

\* a variant of Env_set: the innermost frame that holds the name already,
\* the top frame when none does
Env_set_where_bound(env, name, value) ==
    LET holders == {i \in 1..Len(env) : name \in DOMAIN env[i].variables}
        frame == IF holders = {} THEN Len(env)
                 ELSE CHOOSE i \in holders : \A j \in holders : j <= i
    IN  IF Len(env) = 0 THEN env
        ELSE [env EXCEPT ![frame].variables = MapPut(@, name, value)]

Env_set(env, name, value) ==
    IF Len(env) = 0 THEN env
    ELSE [env EXCEPT ![Len(env)].variables = MapPut(@, name, value)]

RECURSIVE Env_get_instance_class_from(_, _, _)
Env_get_instance_class_from(env, name, i) ==
    IF i = 0 THEN None
    ELSE IF name \in DOMAIN env[i].instance_classes
         THEN Some(env[i].instance_classes[name])
         ELSE Env_get_instance_class_from(env, name, i - 1)

Env_get_instance_class(env, name) == Env_get_instance_class_from(env, name, Len(env))

RECURSIVE Env_get_function_from(_, _, _)
Env_get_function_from(env, id, i) ==
    IF i = 0 THEN None
    ELSE IF id \in DOMAIN env[i].functions
         THEN Some(env[i].functions[id])
         ELSE Env_get_function_from(env, id, i - 1)

Env_get_function(env, id) == Env_get_function_from(env, id, Len(env))

Env_push(env, func) ==
    LET classes == {func.instance_classes[n] : n \in DOMAIN func.instance_classes}
        by_id == [i \in {class.id : class \in classes} |->
                     CHOOSE class \in classes : class.id = i]
        by_name == [n \in {class.variant : class \in classes} |->
                     CHOOSE class \in classes : class.variant = n]
    IN  Append(env, [variables |-> EmptyMap,
                     functions |-> func.functions,
                     id_to_class |-> by_id,
                     instance_classes |-> by_name])

\* a variant of Env_pop: the frame stays
Env_pop_nothing(env) == env

Env_pop(env) == SubSeq(env, 1, Len(env) - 1)

(***************************************************************************)
(* runtime.rs: run_function, one instruction at a time.  A stack is a      *)
(* sequence, its top the last element.  The effect of an instruction is    *)
(* [k, rule, env, stack, err, value, func, fid, args, out]: k is "next"    *)
(* (go on with env and stack), "invoke" (run closure func on args),        *)
(* "return" (the invocation ends with value), "err" or "panic".            *)
(***************************************************************************)
Effect(env, stack) ==
    [k |-> "next", rule |-> "", env |-> env, stack |-> stack,
     err |-> [e |-> "none"], value |-> Value_Unit,
     func |-> CompiledFunction(0), fid |-> 0, args |-> <<>>, out |-> <<>>]

\* `amount` times stack.pop(): values in the order popped; not ok when the
\* stack runs out, every value popped by then
pop_values(stack, amount) ==
    IF Len(stack) < amount
    THEN [ok |-> FALSE, values |-> Reverse(stack), stack |-> <<>>]
    ELSE [ok |-> TRUE,
          values |-> [i \in 1..amount |-> stack[Len(stack) + 1 - i]],
          stack |-> SubSeq(stack, 1, Len(stack) - amount)]

exec_Set(env, stack, name) ==
    IF Len(stack) = 0
    THEN [Effect(env, stack) EXCEPT !.k = "err", !.err = StackUnderflow]
    ELSE [Effect(env, stack) EXCEPT
             !.env = Env_set(env, name, stack[Len(stack)]),
             !.stack = SubSeq(stack, 1, Len(stack) - 1)]

exec_push(env, stack, value) ==
    [Effect(env, stack) EXCEPT !.stack = Append(stack, value)]

\* a variant of resolve: the constructors of the program before its variables
resolve_typedef_first(rt, env, name) ==
    IF Env_get_instance_class(env, name).some THEN "TypeDef"
    ELSE IF Env_get(env, name).some THEN "Variable"
    ELSE IF name \in DOMAIN rt.builtin_functions THEN "Builtin function"
    ELSE IF name \in DOMAIN rt.builtin_instance_classes THEN "Builtin TypeDef"
    ELSE "Error not found"

\* a variant of resolve: the builtin constructors before those of the program
resolve_builtin_first(rt, env, name) ==
    IF Env_get(env, name).some THEN "Variable"
    ELSE IF name \in DOMAIN rt.builtin_instance_classes THEN "Builtin TypeDef"
    ELSE IF Env_get_instance_class(env, name).some THEN "TypeDef"
    ELSE IF name \in DOMAIN rt.builtin_functions THEN "Builtin function"
    ELSE "Error not found"

\* which of the five branches of Inst::Call takes the name
resolve(rt, env, name) ==
    IF Env_get(env, name).some THEN "Variable"
    ELSE IF Env_get_instance_class(env, name).some THEN "TypeDef"
    ELSE IF name \in DOMAIN rt.builtin_functions THEN "Builtin function"
    ELSE IF name \in DOMAIN rt.builtin_instance_classes THEN "Builtin TypeDef"
    ELSE "Error not found"

call_variable(env, stack, name) ==
    LET value == Env_get(env, name).value
        eff == [Effect(env, stack) EXCEPT !.rule = "Variable"]
    IN  IF value.t = "Function"
        THEN LET func == Env_get_function(env, value.func) IN
             IF ~func.some THEN [eff EXCEPT !.k = "panic"]
             ELSE LET args == pop_values(stack, func.value.args) IN
                  IF ~args.ok
                  THEN [eff EXCEPT !.k = "err", !.err = StackUnderflow,
                                   !.stack = args.stack]
                  ELSE [eff EXCEPT !.k = "invoke", !.func = func.value,
                                   !.fid = value.func, !.args = args.values,
                                   !.stack = args.stack]
        ELSE [eff EXCEPT !.stack = Append(stack, value)]

\* a variant of call_typedef: a stack that runs out ends the properties
call_typedef_short(env, stack, instance_class, rule) ==
    LET properties == pop_values(stack, Len(instance_class.properties)) IN
    [Effect(env, stack) EXCEPT
        !.rule = rule,
        !.stack = Append(properties.stack,
                         Value_Instance(instance_class.id, properties.values))]

call_typedef(env, stack, instance_class, rule) ==
    LET eff == [Effect(env, stack) EXCEPT !.rule = rule]
        properties == pop_values(stack, Len(instance_class.properties))
    IN  IF ~properties.ok
        THEN [eff EXCEPT !.k = "err", !.err = StackUnderflow,
                         !.stack = properties.stack]
        ELSE [eff EXCEPT !.stack =
                 Append(properties.stack,
                        Value_Instance(instance_class.id, properties.values))]

call_builtin(rt, env, stack, name) ==
    LET eff == [Effect(env, stack) EXCEPT !.rule = "Builtin function"]
        func == rt.builtin_functions[name]
        args == pop_values(stack, func.args)
    IN  IF ~args.ok
        THEN [eff EXCEPT !.k = "err", !.err = StackUnderflow, !.stack = args.stack]
        ELSE LET result == native_call(func.func, args.values) IN
             CASE result.k = "ok" ->
                    [eff EXCEPT !.stack = Append(args.stack, result.value),
                                !.out = result.out]
               [] result.k = "err" ->
                    [eff EXCEPT !.k = "err", !.err = result.err, !.stack = args.stack]
               [] result.k = "panic" ->
                    [eff EXCEPT !.k = "panic", !.stack = args.stack]

\* a variant of call_undefined: one value is popped before the name is
\* looked up
call_undefined_popping(env, stack, name) ==
    IF Len(stack) = 0
    THEN [Effect(env, stack) EXCEPT !.rule = "Error not found", !.k = "err",
                                    !.err = StackUnderflow]
    ELSE [Effect(env, stack) EXCEPT !.rule = "Error not found", !.k = "err",
                                    !.err = UndefinedName(name),
                                    !.stack = SubSeq(stack, 1, Len(stack) - 1)]

call_undefined(env, stack, name) ==
    [Effect(env, stack) EXCEPT !.rule = "Error not found", !.k = "err",
                               !.err = UndefinedName(name)]

exec_Call(rt, env, stack, name) ==
    LET rule == resolve(rt, env, name) IN
    CASE rule = "Variable" -> call_variable(env, stack, name)
      [] rule = "TypeDef" ->
           call_typedef(env, stack, Env_get_instance_class(env, name).value, rule)
      [] rule = "Builtin function" -> call_builtin(rt, env, stack, name)
      [] rule = "Builtin TypeDef" ->
           call_typedef(env, stack, rt.builtin_instance_classes[name], rule)
      [] rule = "Error not found" -> call_undefined(env, stack, name)

\* Inst::List and Inst::Tuple: the container holds the values as popped
exec_collect(env, stack, items, t) ==
    LET values == pop_values(stack, items) IN
    IF ~values.ok
    THEN [Effect(env, stack) EXCEPT !.k = "err", !.err = StackUnderflow,
                                    !.stack = values.stack]
    ELSE [Effect(env, stack) EXCEPT
             !.stack = Append(values.stack, [t |-> t, v |-> values.values])]

\* a variant of exec_Return: the value at the bottom of the stack
exec_Return_bottom(env, stack) ==
    IF Len(stack) = 0
    THEN [Effect(env, stack) EXCEPT !.k = "err", !.err = StackUnderflow]
    ELSE [Effect(env, stack) EXCEPT !.k = "return", !.value = stack[1],
                                    !.stack = Tail(stack)]

exec_Return(env, stack) ==
    IF Len(stack) = 0
    THEN [Effect(env, stack) EXCEPT !.k = "err", !.err = StackUnderflow]
    ELSE [Effect(env, stack) EXCEPT !.k = "return", !.value = stack[Len(stack)],
                                    !.stack = SubSeq(stack, 1, Len(stack) - 1)]

\* the end of the code: stack.pop().unwrap_or(Value::Unit)
fall_through(env, stack) ==
    [Effect(env, stack) EXCEPT
        !.k = "return",
        !.value = IF Len(stack) = 0 THEN Value_Unit ELSE stack[Len(stack)],
        !.stack = IF Len(stack) = 0 THEN stack ELSE SubSeq(stack, 1, Len(stack) - 1)]

(***************************************************************************)
(* The programs run: every sequence of at most MaxStmts statements of the  *)
(* catalogue, joined by "; ", and the examples of the language reference.  *)
(***************************************************************************)
MaxStmts == 3

Snippets ==
    <<
      \* 1: x = 1
      <<"x", " ", "=", " ", "1">>,
      \* 2: f = { a, b | x = a; b }
      <<"f", " ", "=", " ", "{", " ", "a", ",", " ", "b", " ", "|",
        " ", "x", " ", "=", " ", "a", ";", " ", "b", " ", "}">>,
      \* 3: f 2, 3.5
      <<"f", " ", "2", ",", " ", "3", ".", "5">>,
      \* 4: x
      <<"x">>,
      \* 5: typedef T = x(p) | print
      <<"t", "y", "p", "e", "d", "e", "f", " ", "T", " ", "=", " ",
        "x", "(", "p", ")", " ", "|", " ", "p", "r", "i", "n", "t">>,
      \* 6: [4, "s"]
      <<"[", "4", ",", " ", "\"", "s", "\"", "]">>,
      \* 7: g = { k = { 8; return x; 9 }; k }
      <<"g", " ", "=", " ", "{", " ", "k", " ", "=", " ", "{", " ",
        "8", ";", " ", "r", "e", "t", "u", "r", "n", " ", "x", ";",
        " ", "9", " ", "}", ";", " ", "k", " ", "}">>,
      \* 8: g
      <<"g">>,
      \* 9: print True
      <<"p", "r", "i", "n", "t", " ", "T", "r", "u", "e">>,
      \* 10: (-x, 5)
      <<"(", "-", "x", ",", " ", "5", ")">>
    >>

\* pi = 3.14; pi
Example_float ==
    <<"p", "i", " ", "=", " ", "3", ".", "1", "4", ";", " ", "p", "i">>

\* typedef Bool = True | False; True
Example_bool ==
    <<"t", "y", "p", "e", "d", "e", "f", " ", "B", "o", "o", "l", " ",
      "=", " ", "T", "r", "u", "e", " ", "|", " ", "F", "a", "l", "s",
      "e", ";", " ", "T", "r", "u", "e">>

\* x = 1; f = { print x }; f
Example_print ==
    <<"x", " ", "=", " ", "1", ";", " ", "f", " ", "=", " ", "{", " ",
      "p", "r", "i", "n", "t", " ", "x", " ", "}", ";", " ", "f">>

\* typedef Pair = Pair(a, b); Pair 1 2
Example_pair ==
    <<"t", "y", "p", "e", "d", "e", "f", " ", "P", "a", "i", "r", " ",
      "=", " ", "P", "a", "i", "r", "(", "a", ",", " ", "b", ")", ";",
      " ", "P", "a", "i", "r", " ", "1", " ", "2">>

RECURSIVE Join(_)
Join(q) ==
    IF Len(q) = 0 THEN <<>>
    ELSE IF Len(q) = 1 THEN Snippets[q[1]]
    ELSE Snippets[q[1]] \o <<";", " ">> \o Join(Tail(q))

\* (1); (); (2, 3); ((4),); (5,)
Example_tuples ==
    <<"(", "1", ")", ";", " ", "(", ")", ";", " ", "(", "2", ",", " ", "3", ")",
      ";", " ", "(", "(", "4", ")", ",", ")", ";", " ", "(", "5", ",", ")">>

\* g = { { 8 } }; h = g; h
Example_escape ==
    <<"g", " ", "=", " ", "{", " ", "{", " ", "8", " ", "}", " ", "}", ";", " ",
      "h", " ", "=", " ", "g", ";", " ", "h">>

Examples ==
    {Example_float, Example_bool, Example_print, Example_pair, Example_tuples,
     Example_escape}

Sources ==
    {Join(q) : q \in UNION {[1..n -> 1..Len(Snippets)] : n \in 0..MaxStmts}}
        \cup Examples

\* the type a host registers besides the builtins: a variant named as the
\* native function print
HostType ==
    [name |-> "Host", variants |-> <<[name |-> "print", properties |-> <<>>]>>]

(***************************************************************************)
(* The pipeline of main.rs and the interpreter loop as a state machine.    *)
(* calls is the chain of active run_function invocations, each             *)
(* [p, ip, stack, fid, pushed]: the function, the index of its next        *)
(* instruction, its value stack, and (history) the id of the closure and   *)
(* the part of the caller's stack the call took its arguments from.  last  *)
(* (history) is the instruction executed last; dead (history) the names    *)
(* bound in frames that were popped.  tk is the tokenizer over the source  *)
(* and toks (history) the tokens a loop of next() has taken from it.       *)
(***************************************************************************)
VARIABLES phase, source, tk, toks, ast, cp, rt, env, calls, outcome, printed, last, dead

vars == <<phase, source, tk, toks, ast, cp, rt, calls, env, outcome, printed, last, dead>>

NoLast == [op |-> "", name |-> "", rule |-> "", k |-> "", depth |-> 0, pre |-> <<>>]

Init ==
    /\ phase = "source"
    /\ source \in Sources
    /\ tk = Tokenizer_new(SourceReader_new(source))
    /\ toks = <<>>
    /\ ast = [statements |-> <<>>]
    /\ cp = [root_function |-> CompiledFunction(0), next_id |-> 0, declared |-> EmptyMap]
    /\ rt = Runtime_new
    /\ env = Env_new
    /\ calls = <<>>
    /\ outcome = [k |-> "none"]
    /\ printed = <<>>
    /\ last = NoLast
    /\ dead = {}

\* what main.rs makes of a failed parse: the abort of an unwrap, a call of
\* the tokenizer that never returns, or the ParseError
parse_failure(e) ==
    IF e.err = "Panic" THEN [k |-> "Panic", what |-> e.what]
    ELSE IF e.err # "EOF" /\ e.found.kind = "Hang" THEN [k |-> "Hang"]
    ELSE [k |-> "ParseError", err |-> e]

Parsed(r) ==
    /\ ast' = IF r.ok THEN r.val ELSE ast
    /\ outcome' = IF r.ok THEN outcome ELSE parse_failure(r.val)
    /\ phase' = IF r.ok THEN "parsed" ELSE "done"

\* main.rs: Parser::new(tokenizer).parse_program()
Parse ==
    /\ phase = "source"
    /\ Parsed(parse_program(Parser_new(tk)))
    /\ UNCHANGED <<source, tk, toks, cp, rt, env, calls, printed, last, dead>>

\* main.rs: Compiler::new().compile(program)
Compile ==
    /\ phase = "parsed"
    /\ cp' = compile(Compiler_new, ast)
    /\ phase' = "compiled"
    /\ UNCHANGED <<source, tk, toks, ast, rt, env, calls, outcome, printed, last, dead>>

\* main.rs: register_builtins(&mut runtime)
RegisterBuiltins ==
    /\ phase = "compiled"
    /\ rt' = register_builtins(rt)
    /\ phase' = "builtins"
    /\ UNCHANGED <<source, tk, toks, ast, cp, env, calls, outcome, printed, last, dead>>

\* a host's own Runtime::register_type before it runs the program
RegisterType ==
    /\ phase = "builtins"
    /\ rt' = register_type(rt, HostType)
    /\ phase' = "host"
    /\ UNCHANGED <<source, tk, toks, ast, cp, env, calls, outcome, printed, last, dead>>

\* pushed and below keep what the caller had when the invocation began: the
\* values the call popped, and the frames under the invocation's own
Invocation(p, args, fid, pushed, below) ==
    [p |-> p, ip |-> 0, stack |-> args, fid |-> fid, pushed |-> pushed,
     below |-> below]

\* Runtime::run up to the first instruction of the root function
Run ==
    /\ phase \in {"builtins", "host"}
    /\ env' = Env_push(Env_new, cp.root_function)
    /\ calls' = <<Invocation(cp.root_function, <<>>, -1, <<>>, <<>>)>>
    /\ phase' = "running"
    /\ UNCHANGED <<source, tk, toks, ast, cp, rt, outcome, printed, last, dead>>

Top == calls[Len(calls)]

CurInst == Top.p.code[Top.ip + 1]

At(op) == phase = "running" /\ Top.ip < Len(Top.p.code) /\ CurInst.op = op

\* the instruction went through: the invocation goes on, a closure starts,
\* the invocation ends (and with the root invocation, the run), or the run
\* fails
Apply(eff, op, name) ==
    LET n == Len(calls)
        stepped == [calls EXCEPT ![n] = [@ EXCEPT !.ip = IF op = "" THEN @ ELSE @ + 1,
                                                  !.stack = eff.stack]]
    IN  /\ last' = [op |-> op, name |-> name, rule |-> eff.rule, k |-> eff.k,
                    depth |-> n, pre |-> Top.stack]
        /\ printed' = printed \o eff.out
        /\ CASE eff.k = "next" ->
                  /\ env' = eff.env
                  /\ calls' = stepped
                  /\ UNCHANGED <<phase, outcome, dead>>
             [] eff.k = "invoke" ->
                  /\ env' = Env_push(eff.env, eff.func)
                  /\ calls' = Append(stepped,
                                     Invocation(eff.func, eff.args, eff.fid,
                                                SubSeq(Top.stack, Len(eff.stack) + 1,
                                                       Len(Top.stack)),
                                                eff.env))
                  /\ UNCHANGED <<phase, outcome, dead>>
             [] eff.k = "return" ->
                  /\ env' = Env_pop(eff.env)
                  /\ dead' = dead \cup DOMAIN eff.env[Len(eff.env)].variables
                  /\ IF n = 1
                     THEN /\ calls' = <<>>
                          /\ outcome' = [k |-> "Ok", value |-> eff.value]
                          /\ phase' = "done"
                     ELSE /\ calls' = [SubSeq(calls, 1, n - 1) EXCEPT
                                          ![n - 1].stack = Append(@, eff.value)]
                          /\ UNCHANGED <<phase, outcome>>
             [] eff.k = "err" ->
                  /\ env' = eff.env
                  /\ calls' = stepped
                  /\ outcome' = [k |-> "Err", err |-> eff.err]
                  /\ phase' = "done"
                  /\ UNCHANGED dead
             [] eff.k = "panic" ->
                  /\ env' = eff.env
                  /\ calls' = stepped
                  /\ outcome' = [k |-> "Panic", what |-> "unwrap"]
                  /\ phase' = "done"
                  /\ UNCHANGED dead
        /\ UNCHANGED <<source, tk, toks, ast, cp, rt>>

Step_Set == At("Set") /\ Apply(exec_Set(env, Top.stack, CurInst.name), "Set", CurInst.name)

Step_Int == At("Int") /\ Apply(exec_push(env, Top.stack, Value_Int(CurInst.value)), "Int", "")

Step_Float ==
    At("Float") /\ Apply(exec_push(env, Top.stack, Value_Float(CurInst.value)), "Float", "")

Step_String ==
    At("String") /\ Apply(exec_push(env, Top.stack, Value_String(CurInst.value)), "String", "")

Step_Call ==
    At("Call") /\ Apply(exec_Call(rt, env, Top.stack, CurInst.name), "Call", CurInst.name)

Step_List == At("List") /\ Apply(exec_collect(env, Top.stack, CurInst.items, "List"), "List", "")

Step_Tuple ==
    At("Tuple") /\ Apply(exec_collect(env, Top.stack, CurInst.items, "Tuple"), "Tuple", "")

Step_Function ==
    At("Function")
        /\ Apply(exec_push(env, Top.stack, Value_Function(CurInst.func)), "Function", "")

Step_Return == At("Return") /\ Apply(exec_Return(env, Top.stack), "Return", "")

\* the loop condition ip < p.code.len() fails
Step_End ==
    /\ phase = "running"
    /\ Top.ip = Len(Top.p.code)
    /\ Apply(fall_through(env, Top.stack), "", "")

Next ==
    \/ Parse
    \/ Compile
    \/ RegisterBuiltins
    \/ RegisterType
    \/ Run
    \/ Step_Set
    \/ Step_Int
    \/ Step_Float
    \/ Step_String
    \/ Step_Call
    \/ Step_List
    \/ Step_Tuple
    \/ Step_Function
    \/ Step_Return
    \/ Step_End

Spec == Init /\ [][Next]_vars

(***************************************************************************)
(* Properties of the interpreter.                                          *)
(***************************************************************************)
\* equality of two values, of two sequences of values, of the variables of
\* two frames, of two frames: the types are compared before the contents
RECURSIVE SameValue(_, _)
SameValue(a, b) ==
    /\ a.t = b.t
    /\ CASE a.t \in {"List", "Tuple"} ->
              /\ Len(a.v) = Len(b.v)
              /\ \A i \in 1..Len(a.v) : SameValue(a.v[i], b.v[i])
         [] a.t = "Instance" ->
              /\ a.class = b.class
              /\ Len(a.properties) = Len(b.properties)
              /\ \A i \in 1..Len(a.properties) :
                     SameValue(a.properties[i], b.properties[i])
         [] OTHER -> a = b

SameValues(q1, q2) ==
    /\ Len(q1) = Len(q2)
    /\ \A i \in 1..Len(q1) : SameValue(q1[i], q2[i])

SameVariables(m1, m2) ==
    /\ DOMAIN m1 = DOMAIN m2
    /\ \A n \in DOMAIN m1 : SameValue(m1[n], m2[n])

SameFrame(f1, f2) ==
    /\ SameVariables(f1.variables, f2.variables)
    /\ f1.functions = f2.functions
    /\ f1.instance_classes = f2.instance_classes
    /\ f1.id_to_class = f2.id_to_class

\* the stack the step leaves to the running invocation, and its top
NewStack == calls'[Len(calls')].stack

NewTop == NewStack[Len(NewStack)]

\* the frames that bind the name as a variable, as a constructor
Binders(name) == {i \in 1..Len(env) : name \in DOMAIN env[i].variables}

Declarers(name) == {i \in 1..Len(env) : name \in DOMAIN env[i].instance_classes}

Innermost(frames) == CHOOSE i \in frames : \A j \in frames : j <= i

\* the priority order of the language reference
Priority(name) ==
    IF Binders(name) # {} THEN "Variable"
    ELSE IF Declarers(name) # {} THEN "TypeDef"
    ELSE IF name \in DOMAIN rt.builtin_functions THEN "Builtin function"
    ELSE IF name \in DOMAIN rt.builtin_instance_classes THEN "Builtin TypeDef"
    ELSE "Error not found"

\* C1: every Call(name) takes the first rule that matches, in the order
\* variable of a live frame, constructor of a live frame, native function,
\* builtin constructor, UndefinedName(name): the step does what that rule
\* says (the variable's value or its closure is used, an Instance of the
\* program's class or of the builtin class is built, the native runs, the
\* run fails).
C1_CallPriority ==
    [][At("Call") =>
          LET name == CurInst.name
              rule == Priority(name)
          IN  /\ last'.rule = rule
              /\ (rule = "Variable" /\ last'.k = "next") =>
                     \E i \in Binders(name) : SameValue(NewTop, env[i].variables[name])
              /\ (rule = "Variable" /\ last'.k = "invoke") =>
                     /\ Len(calls') = Len(calls) + 1
                     /\ \E i \in Binders(name) :
                            calls'[Len(calls')].fid = env[i].variables[name].func
              /\ (rule = "TypeDef" /\ last'.k = "next") =>
                     /\ NewTop.t = "Instance"
                     /\ \E i \in Declarers(name) :
                            NewTop.class = env[i].instance_classes[name].id
              /\ (rule = "Builtin function" /\ last'.k = "next") =>
                     (rt.builtin_functions[name].func = "print" =>
                          /\ Len(printed') = Len(printed) + 1
                          /\ SameValue(printed'[Len(printed')], NewTop))
              /\ (rule = "Builtin TypeDef" /\ last'.k = "next") =>
                     /\ NewTop.t = "Instance"
                     /\ NewTop.class = rt.builtin_instance_classes[name].id
              /\ rule = "Error not found" =>
                     outcome' = [k |-> "Err", err |-> UndefinedName(name)]
    ]_vars

\* a Call read a variable while a live frame declares a constructor of the
\* same name
C1_Witness ==
    /\ last.op = "Call"
    /\ last.k = "next"
    /\ last.rule = "Variable"
    /\ Declarers(last.name) # {}

\* C2: a Call(x) finds the variable x of the innermost live frame that binds
\* it, whichever invocation on the stack bound it, and finds no variable
\* when no live frame binds x (also when a frame popped before bound it);
\* `x = 1; f = { print x }; f` prints 1.
C2_LookupWalksLiveFrames ==
    [][/\ At("Call") =>
            LET name == CurInst.name IN
            /\ Binders(name) # {} =>
                   /\ last'.rule = "Variable"
                   /\ last'.k = "next" =>
                          SameValue(NewTop,
                                    env[Innermost(Binders(name))].variables[name])
                   /\ last'.k = "invoke" =>
                          calls'[Len(calls')].fid =
                              env[Innermost(Binders(name))].variables[name].func
            /\ Binders(name) = {} => last'.rule # "Variable"
            /\ (Binders(name) = {} /\ name \in dead /\ Declarers(name) = {}
                    /\ name \notin DOMAIN rt.builtin_functions
                    /\ name \notin DOMAIN rt.builtin_instance_classes)
                   => outcome' = [k |-> "Err", err |-> UndefinedName(name)]
       /\ (source' = Example_print /\ phase' = "done") =>
              /\ SameValues(printed', <<Value_Int(1)>>)
              /\ outcome'.k = "Ok"
              /\ SameValue(outcome'.value, Value_Int(1))
    ]_vars

\* inside a callee a Call read a variable bound by a frame below its own
C2_Witness ==
    /\ last.op = "Call"
    /\ last.rule = "Variable"
    /\ last.k = "next"
    /\ last.depth >= 2
    /\ Len(env) = last.depth
    /\ last.name \notin DOMAIN env[Len(env)].variables

\* C3: a Set(name) pops one value and binds it to name in the top frame;
\* every frame below the top is left as it was.
C3_SetWritesTopFrame ==
    [][(At("Set") /\ Len(Top.stack) > 0) =>
          /\ Len(env') = Len(env)
          /\ \A i \in 1..(Len(env) - 1) : SameFrame(env'[i], env[i])
          /\ SameVariables(env'[Len(env)].variables,
                           MapPut(env[Len(env)].variables, CurInst.name,
                                  Top.stack[Len(Top.stack)]))
          /\ SameValues(NewStack, SubSeq(Top.stack, 1, Len(Top.stack) - 1))
    ]_vars

\* a Set in a callee bound a name that a frame below binds to a value of
\* another type
C3_Witness ==
    /\ last.op = "Set"
    /\ last.k = "next"
    /\ last.depth >= 2
    /\ Len(env) = last.depth
    /\ \E i \in 1..(Len(env) - 1) :
           /\ last.name \in DOMAIN env[i].variables
           /\ env[i].variables[last.name].t # env[Len(env)].variables[last.name].t

\* C4: a List(n) or a Tuple(n) that finds its n values on the stack leaves a
\* container of that kind whose element i is the i-th of the n values in the
\* order they were pushed, which is the order of the element expressions in
\* the source.
C4_ElementsInSourceOrder ==
    [][\A t \in {"List", "Tuple"} :
          (At(t) /\ Len(Top.stack) >= CurInst.items) =>
              /\ NewTop.t = t
              /\ SameValues(NewTop.v,
                            SubSeq(Top.stack, Len(Top.stack) - CurInst.items + 1,
                                   Len(Top.stack)))
    ]_vars

\* C5: the run of `typedef Pair = Pair(a, b); Pair 1 2` ends without error in
\* an Instance of the class Pair of the program whose two properties are
\* the values 1 and 2.
C5_PairExample ==
    (source = Example_pair /\ phase = "done") =>
        /\ outcome.k = "Ok"
        /\ outcome.value.t = "Instance"
        /\ outcome.value.class = cp.root_function.instance_classes["Pair"].id
        /\ Len(outcome.value.properties) = 2
        /\ \E i, j \in 1..2 :
               /\ i # j
               /\ SameValue(outcome.value.properties[i], Value_Int(1))
               /\ SameValue(outcome.value.properties[j], Value_Int(2))

\* C6: in an invocation of a closure declared with parameters p1..pn, called
\* on the values v1..vn pushed in that order, the code starts by Set(pn), ..,
\* Set(p1), the stack starts as vn..v1 read from the bottom (the values in
\* the order the caller popped them), and once the prologue has run the top
\* frame binds pi to v(n+1-i): the first parameter to the last value.
C6_ParametersBoundInReverse ==
    (Len(calls) > 0 /\ Top.fid >= 0) =>
        LET ps == cp.declared[Top.fid]
            n == Len(ps)
        IN  /\ Len(Top.pushed) = n
            /\ Len(Top.p.code) >= n
            /\ \A i \in 1..n : Top.p.code[i] = Inst_Set(ps[n + 1 - i])
            /\ Top.ip = 0 =>
                   /\ Len(Top.stack) = n
                   /\ \A i \in 1..n : SameValue(Top.stack[i], Top.pushed[n + 1 - i])
            /\ Top.ip = n =>
                   \A i \in 1..n :
                       /\ ps[i] \in DOMAIN env[Len(env)].variables
                       /\ SameValue(env[Len(env)].variables[ps[i]],
                                    Top.pushed[n + 1 - i])

\* a closure of two parameters, called on two values of different types,
\* has run its prologue
C6_Witness ==
    /\ phase = "running"
    /\ Len(calls) >= 2
    /\ Top.fid >= 0
    /\ Len(cp.declared[Top.fid]) = 2
    /\ Top.ip = 2
    /\ Top.pushed[1].t # Top.pushed[2].t

\* C7: `pi = 3.14; pi` runs to the Float 3.14; `typedef Bool = True | False;
\* True` runs to an Instance without properties whose class is the True the
\* program declares, an id of the compiler's counter and not the id of the
\* builtin True.
C7_EndToEnd ==
    /\ (source = Example_float /\ phase = "done") =>
           /\ outcome.k = "Ok"
           /\ outcome.value.t = "Float"
           /\ outcome.value.v = [neg |-> FALSE, digits |-> <<"3", "1", "4">>, exp |-> -2]
    /\ (source = Example_bool /\ phase = "done") =>
           /\ outcome.k = "Ok"
           /\ outcome.value.t = "Instance"
           /\ outcome.value.properties = <<>>
           /\ outcome.value.class = cp.root_function.instance_classes["True"].id
           /\ cp.root_function.instance_classes["True"].typedef.name = "Bool"
           /\ outcome.value.class < cp.next_id
           /\ outcome.value.class # rt.builtin_instance_classes["True"].id

\* the run of the Bool example is over, the builtin True registered
C7_Witness ==
    /\ source = Example_bool
    /\ phase = "done"
    /\ outcome.k = "Ok"
    /\ "True" \in DOMAIN rt.builtin_instance_classes

\* C8: a Call(name), name being no variable and no constructor of a live
\* frame, no native function and no builtin constructor, ends the run with
\* UndefinedName(name) and leaves the stack and the frames as they were,
\* whatever the stack holds.
C8_UndefinedName ==
    [][(At("Call") /\ Priority(CurInst.name) = "Error not found") =>
          /\ outcome' = [k |-> "Err", err |-> UndefinedName(CurInst.name)]
          /\ phase' = "done"
          /\ SameValues(NewStack, Top.stack)
          /\ Len(env') = Len(env)
          /\ \A i \in 1..Len(env) : SameFrame(env'[i], env[i])
    ]_vars

\* an undefined name was called on a stack that held values
C8_Witness ==
    /\ last.op = "Call"
    /\ last.rule = "Error not found"
    /\ Len(last.pre) >= 2
    /\ outcome = [k |-> "Err", err |-> UndefinedName(last.name)]

\* the invocation on top ends with value v: the root invocation ends the run
\* with Ok(v); any other one leaves its caller where the caller was, v
\* pushed on the caller's stack
Ends(v) ==
    LET n == Len(calls) IN
    IF n = 1
    THEN /\ calls' = <<>>
         /\ phase' = "done"
         /\ outcome'.k = "Ok"
         /\ SameValue(outcome'.value, v)
    ELSE /\ Len(calls') = n - 1
         /\ \A i \in 1..(n - 1) :
                /\ calls'[i].p = calls[i].p
                /\ calls'[i].ip = calls[i].ip
                /\ calls'[i].fid = calls[i].fid
         /\ \A i \in 1..(n - 2) : SameValues(calls'[i].stack, calls[i].stack)
         /\ SameValues(calls'[n - 1].stack, Append(calls[n - 1].stack, v))
         /\ phase' = "running"

\* C9: a Return ends its invocation at once with the top of the stack, the
\* caller going on with that value pushed; the end of the code ends the
\* invocation with the top of the stack, with Unit when the stack is empty.
C9_ReturnEndsInvocation ==
    [][/\ (At("Return") /\ Len(Top.stack) > 0) => Ends(Top.stack[Len(Top.stack)])
       /\ (phase = "running" /\ Top.ip = Len(Top.p.code)) =>
              Ends(IF Len(Top.stack) = 0 THEN Value_Unit
                   ELSE Top.stack[Len(Top.stack)])
    ]_vars

\* a Return ended a callee whose stack held several values and whose code
\* went on after the Return
C9_Witness ==
    /\ last.op = "Return"
    /\ last.k = "return"
    /\ last.depth >= 2
    /\ Len(last.pre) >= 2
    /\ Len(calls) = last.depth - 1

\* C10: while the run goes on there is one frame per active invocation; a
\* step adds a frame on top exactly when it starts an invocation and takes
\* the top frame away exactly when it ends one; no frame is left when run
\* returns a value.
C10_FramesTrackInvocations ==
    [][/\ phase' = "running" => Len(env') = Len(calls')
       /\ (phase' = "done" /\ outcome'.k = "Ok") => (env' = <<>> /\ calls' = <<>>)
       /\ (phase = "running" /\ (phase' = "running" \/ outcome'.k = "Ok")) =>
              /\ Len(env') - Len(env) = Len(calls') - Len(calls)
              /\ Len(env') - Len(env) \in {-1, 0, 1}
              /\ \A i \in 1..(Min(Len(env), Len(env')) - 1) :
                     SameFrame(env'[i], env[i])
              /\ Len(env') = Len(env) + 1 <=> last'.k = "invoke"
              /\ Len(env') = Len(env) - 1 <=> last'.k = "return"
              /\ Len(env') = Len(env) + 1 =>
                     SameFrame(env'[Len(env)], env[Len(env)])
              /\ Len(env') = Len(env) - 1 =>
                     (Len(env') > 0 =>
                          SameFrame(env'[Len(env')], env[Len(env')]))
    ]_vars

\* a closure called by a closure runs: three invocations, three frames
C10_Witness ==
    /\ phase = "running"
    /\ Len(calls) = 3
    /\ Len(env) = 3


\* the classes a compiled function declares, those of its closures included
RECURSIVE ClassesOf(_)
ClassesOf(f) ==
    {f.instance_classes[n] : n \in DOMAIN f.instance_classes}
        \cup UNION {ClassesOf(f.functions[id]) : id \in DOMAIN f.functions}

\* the property counts of the classes, of the program or builtin, with the id
PropertyCounts(id) ==
    {Len(c.properties) : c \in {k \in ClassesOf(cp.root_function) : k.id = id}}
        \cup {Len(rt.builtin_id_to_class[i].properties) :
                  i \in {j \in DOMAIN rt.builtin_id_to_class : j = id}}

\* every Instance in the value, the value itself included, has the property
\* count of its class
RECURSIVE InstancesMatchClass(_)
InstancesMatchClass(v) ==
    CASE v.t \in {"List", "Tuple"} ->
           \A i \in 1..Len(v.v) : InstancesMatchClass(v.v[i])
      [] v.t = "Instance" ->
           /\ PropertyCounts(v.class) = {Len(v.properties)}
           /\ \A i \in 1..Len(v.properties) : InstancesMatchClass(v.properties[i])
      [] OTHER -> TRUE

\* C11: every Instance on an operand stack, in a binding of a frame, in what
\* was printed or in the result of the run, at any depth inside lists, tuples
\* and instances, has as many properties as the class with its id declares.
C11_InstanceArity ==
    /\ \A c \in 1..Len(calls) : \A i \in 1..Len(calls[c].stack) :
           InstancesMatchClass(calls[c].stack[i])
    /\ \A f \in 1..Len(env) : \A n \in DOMAIN env[f].variables :
           InstancesMatchClass(env[f].variables[n])
    /\ \A i \in 1..Len(printed) : InstancesMatchClass(printed[i])
    /\ outcome.k = "Ok" => InstancesMatchClass(outcome.value)

\* a constructor of the program with one property has taken a list from the
\* stack
C11_Witness ==
    /\ phase = "running"
    /\ last.op = "Call"
    /\ last.rule = "TypeDef"
    /\ Len(Top.stack) > 0
    /\ Top.stack[Len(Top.stack)].t = "Instance"
    /\ Top.stack[Len(Top.stack)].class < cp.next_id
    /\ Len(Top.stack[Len(Top.stack)].properties) = 1
    /\ Top.stack[Len(Top.stack)].properties[1].t = "List"

(***************************************************************************)
(* The two id counters.  The program is the statement `typedef T = C`      *)
(* over and over: the loop of Compiler::compile takes one statement per    *)
(* step, each giving the class C the next id of the compiler, and the      *)
(* natives are registered once the program is compiled.                    *)
(***************************************************************************)
MaxIds == 100001

\* typedef T = C
TypeDefSource == <<"t", "y", "p", "e", "d", "e", "f", " ", "T", " ", "=", " ", "C">>

IdInit ==
    /\ phase = "compiling"
    /\ source = TypeDefSource
    /\ tk = Tokenizer_new(SourceReader_new(source))
    /\ toks = <<>>
    /\ ast = parse_program(Parser_new(tk)).val
    /\ cp = [root_function |-> CompiledFunction(0), next_id |-> 0, declared |-> EmptyMap]
    /\ rt = Runtime_new
    /\ env = Env_new
    /\ calls = <<>>
    /\ outcome = [k |-> "none"]
    /\ printed = <<>>
    /\ last = NoLast
    /\ dead = {}

\* one turn of `for stm in program.statements` of Compiler::compile
CompileStatement ==
    /\ phase = "compiling"
    /\ cp.next_id < MaxIds
    /\ LET c == compile_statement([next_id |-> cp.next_id,
                                   node |-> cp.root_function,
                                   declared |-> cp.declared,
                                   ok |-> TRUE],
                                  ast.statements[1])
       IN  cp' = [root_function |-> c.node, next_id |-> c.next_id,
                  declared |-> c.declared]
    /\ UNCHANGED <<phase, source, tk, toks, ast, rt, env, calls, outcome, printed,
                   last, dead>>

\* the loop is over: Ok(CompiledProgram { root_function: root })
CompileEnd ==
    /\ phase = "compiling"
    /\ phase' = "compiled"
    /\ UNCHANGED <<source, tk, toks, ast, cp, rt, env, calls, outcome, printed,
                   last, dead>>

IdNext ==
    \/ CompileStatement
    \/ CompileEnd
    \/ RegisterBuiltins
    \/ RegisterType

IdSpec == IdInit /\ [][IdNext]_vars

\* C12: no class of the compiled program has the id of a class registered
\* by Runtime::register_type, however many statements the program has and
\* whichever types were registered.
C12_DisjointIds ==
    \A class \in ClassesOf(cp.root_function) :
        class.id \notin DOMAIN rt.builtin_id_to_class

\* the builtins and a type of the host are registered for a program that
\* declared a class
C12_Witness ==
    /\ phase = "host"
    /\ \E class \in ClassesOf(cp.root_function) : class.id = 1
    /\ Cardinality(DOMAIN rt.builtin_id_to_class) = 3

(***************************************************************************)
(* The parser alone: parse_program on sources that are not run.  The       *)
(* sources are the examples of the grammar, the calls of f with up to      *)
(* MaxArgs literal arguments in the three ways of writing a call, and      *)
(* every sentence of at most MaxWords words of a catalogue.                *)
(***************************************************************************)
MaxArgs == 3

MaxWords == 3

\* 1 | 2 * 3 + 4 < 5 == 6 && 7
Example_precedence ==
    <<"1", " ", "|", " ", "2", " ", "*", " ", "3", " ", "+", " ", "4", " ", "<",
      " ", "5", " ", "=", "=", " ", "6", " ", "&", "&", " ", "7">>

\* [1,2,3].map { it * it }
Example_dot ==
    <<"[", "1", ",", "2", ",", "3", "]", ".", "m", "a", "p", " ", "{", " ",
      "i", "t", " ", "*", " ", "i", "t", " ", "}">>

\* map [1,2,3] { it * it }
Example_bare ==
    <<"m", "a", "p", " ", "[", "1", ",", "2", ",", "3", "]", " ", "{", " ",
      "i", "t", " ", "*", " ", "i", "t", " ", "}">>

RECURSIVE JoinWords(_, _)
JoinWords(words, sep) ==
    IF Len(words) = 0 THEN <<>>
    ELSE IF Len(words) = 1 THEN words[1]
    ELSE words[1] \o sep \o JoinWords(Tail(words), sep)

\* the argument lists: up to MaxArgs of the literals 1 and 2
ArgLists == UNION {[1..n -> {1, 2}] : n \in 0..MaxArgs}

ArgWords(args) ==
    [i \in 1..Len(args) |-> <<CHOOSE c \in Digit : DigitValue(c) = args[i]>>]

\* f 1 2
BareSpaces(args) == JoinWords(<<<<"f">>>> \o ArgWords(args), <<" ">>)

\* f 1, 2
BareCommas(args) ==
    IF Len(args) = 0 THEN <<"f">>
    ELSE <<"f", " ">> \o JoinWords(ArgWords(args), <<",", " ">>)

\* x.f 1 2
DotSpaces(args) == JoinWords(<<<<"x", ".", "f">>>> \o ArgWords(args), <<" ">>)

Words ==
    << <<"f">>, <<"1">>, <<"0", "x", "1">>,
       <<"2", "1", "4", "7", "4", "8", "3", "6", "4", "8">>, <<"1", "e">>,
       <<"=">>, <<"(">>, <<")">>, <<"t", "y", "p", "e", "d", "e", "f">> >>

Sentences ==
    {JoinWords([i \in 1..Len(q) |-> Words[q[i]]], <<" ">>) :
         q \in UNION {[1..n -> 1..Len(Words)] : n \in 0..MaxWords}}

MaxSemis == 2

Semis(n) == [i \in 1..n |-> ";"]

\* ;x = 1;;y = 2; with k, i and j semicolons
SemicolonSource(k, i, j) ==
    Semis(k) \o <<"x", " ", "=", " ", "1">> \o Semis(i)
        \o <<"y", " ", "=", " ", "2">> \o Semis(j)

SemicolonSources ==
    {SemicolonSource(k, i, j) : k \in 0..MaxSemis, i \in 1..MaxSemis, j \in 0..MaxSemis}
        \cup {Semis(k) : k \in 1..MaxSemis}

MaxHead == 4

HeadWords == << <<"a">>, <<"b">>, <<",">>, <<"|">>, <<"1">> >>

\* { a , b | x } with the words of q after the brace
LambdaSource(q) ==
    JoinWords(<< <<"{">> >> \o [i \in 1..Len(q) |-> HeadWords[q[i]]]
                  \o << <<"x">>, <<"}">> >>, <<" ">>)

LambdaHeads == UNION {[1..n -> 1..Len(HeadWords)] : n \in 0..MaxHead}

LambdaSources == {LambdaSource(q) : q \in LambdaHeads}

\* a - b
Example_minus == <<"a", " ", "-", " ", "b">>

\* a * b + c
Example_sum == <<"a", " ", "*", " ", "b", " ", "+", " ", "c">>

ParseSources ==
    {Example_precedence, Example_dot, Example_bare, Example_minus, Example_sum}
        \cup SemicolonSources
        \cup LambdaSources
        \cup {BareSpaces(args) : args \in ArgLists}
        \cup {BareCommas(args) : args \in ArgLists}
        \cup {DotSpaces(args) : args \in ArgLists}
        \cup Sentences

ParseInit ==
    /\ phase = "source"
    /\ source \in ParseSources
    /\ tk = Tokenizer_new(SourceReader_new(source))
    /\ toks = <<>>
    /\ ast = [statements |-> <<>>]
    /\ cp = [root_function |-> CompiledFunction(0), next_id |-> 0, declared |-> EmptyMap]
    /\ rt = Runtime_new
    /\ env = Env_new
    /\ calls = <<>>
    /\ outcome = [k |-> "none"]
    /\ printed = <<>>
    /\ last = NoLast
    /\ dead = {}

ParseNext == Parse

ParseSpec == ParseInit /\ [][ParseNext]_vars

\* ast.rs: the expressions and the statement the claims about the parser name
Expression_Int(value) == [e |-> "Int", value |-> value]

Expression_Operator(operator, left, right) ==
    [e |-> "Operator", operator |-> operator, left |-> left, right |-> right]

Expression_FunCall(name, args) == [e |-> "FunCall", name |-> name, args |-> args]

Expression_List(items) == [e |-> "List", items |-> items]

Expression_Lambda(args, code) == [e |-> "Lambda", args |-> args, code |-> code]

Statement_Expression(expr) == [s |-> "Expression", expr |-> expr]

\* equality of two expressions and of two statements: the kinds are compared
\* before the contents
RECURSIVE SameExpression(_, _)
RECURSIVE SameStatement(_, _)
SameExpressions(q1, q2) ==
    /\ Len(q1) = Len(q2)
    /\ \A i \in 1..Len(q1) : SameExpression(q1[i], q2[i])

SameStatements(q1, q2) ==
    /\ Len(q1) = Len(q2)
    /\ \A i \in 1..Len(q1) : SameStatement(q1[i], q2[i])

SameExpression(a, b) ==
    /\ a.e = b.e
    /\ CASE a.e \in {"Int", "Float", "String"} -> a.value = b.value
         [] a.e = "FunCall" -> a.name = b.name /\ SameExpressions(a.args, b.args)
         [] a.e = "Operator" ->
              /\ a.operator = b.operator
              /\ SameExpression(a.left, b.left)
              /\ SameExpression(a.right, b.right)
         [] a.e = "UnaryOperator" ->
              a.operator = b.operator /\ SameExpression(a.expr, b.expr)
         [] a.e = "List" -> SameExpressions(a.items, b.items)
         [] a.e = "Tuple" -> SameExpressions(a.values, b.values)
         [] a.e = "Lambda" -> a.args = b.args /\ SameStatements(a.code, b.code)
         [] a.e = "Return" -> SameExpression(a.value, b.value)

SameStatement(a, b) ==
    /\ a.s = b.s
    /\ CASE a.s = "Expression" -> SameExpression(a.expr, b.expr)
         [] a.s = "Variable" -> a.name = b.name /\ SameExpression(a.value, b.value)
         [] a.s = "TypeDef" -> a = b

\* the source was parsed to the one statement that is the expression
ParsedTo(expr) ==
    /\ phase = "parsed"
    /\ SameStatements(ast.statements, <<Statement_Expression(expr)>>)

\* C13: `1 | 2 * 3 + 4 < 5 == 6 && 7` parses to the tree
\* 1 | (((((2 * 3) + 4) < 5) == 6) && 7): each of *, +, <, ==, && binds
\* tighter than the next and | is the root.
C13_PrecedenceExample ==
    (source = Example_precedence /\ phase # "source") =>
        ParsedTo(Expression_Operator("BiteOr", Expression_Int(1),
                     Expression_Operator("And",
                         Expression_Operator("Equals",
                             Expression_Operator("Less",
                                 Expression_Operator("Plus",
                                     Expression_Operator("Times", Expression_Int(2), Expression_Int(3)),
                                     Expression_Int(4)),
                                 Expression_Int(5)),
                             Expression_Int(6)),
                         Expression_Int(7))))

\* the example is parsed, and its root is an operator
C13_Witness ==
    /\ source = Example_precedence
    /\ phase = "parsed"
    /\ Len(ast.statements) = 1
    /\ ast.statements[1].s = "Expression"
    /\ ast.statements[1].expr.e = "Operator"

ArgExpressions(args) == [i \in 1..Len(args) |-> Expression_Int(args[i])]

\* map([1, 2, 3], { it * it })
MapCall ==
    Expression_FunCall("map",
        <<Expression_List(<<Expression_Int(1), Expression_Int(2), Expression_Int(3)>>),
          Expression_Lambda(<<>>,
              <<Statement_Expression(
                    Expression_Operator("Times", Expression_FunCall("it", <<>>),
                                        Expression_FunCall("it", <<>>)))>>)>>)

\* C14: `[1,2,3].map { it * it }` and `map [1,2,3] { it * it }` both parse
\* to the one call of map with the list and then the lambda, and `x.f a b`
\* parses to the call of f with x, a, b.
C14_DotCallIsBareCall ==
    /\ (source \in {Example_dot, Example_bare} /\ phase # "source") => ParsedTo(MapCall)
    /\ \A args \in ArgLists :
           (source = DotSpaces(args) /\ phase # "source") =>
               ParsedTo(Expression_FunCall("f",
                            <<Expression_FunCall("x", <<>>)>> \o ArgExpressions(args)))

\* the dot-call form of the example is parsed to the call of map
C14_Witness ==
    /\ source = Example_dot
    /\ ParsedTo(MapCall)

\* C15: `f` followed by n >= 0 literal arguments, separated by spaces alone
\* or by commas, parses to the one call of f with those n arguments in
\* order.
C15_JuxtaposedArguments ==
    \A args \in ArgLists :
        (source \in {BareSpaces(args), BareCommas(args)} /\ phase # "source") =>
            ParsedTo(Expression_FunCall("f", ArgExpressions(args)))

\* three arguments separated by commas are parsed to the call of f
C15_Witness ==
    /\ source = BareCommas(<<1, 2, 1>>)
    /\ ParsedTo(Expression_FunCall("f", ArgExpressions(<<1, 2, 1>>)))

\* C16: parse_program ends, whenever the lexer returns from every call, with
\* a Program or with one of the ParseError values Expected, ExpectedId,
\* UnexpectedToken, EOF, and in no other way.
C16_ParseNeverAborts ==
    (phase # "source" /\ outcome.k # "Hang") =>
        \/ phase = "parsed"
        \/ /\ phase = "done"
           /\ outcome.k = "ParseError"
           /\ outcome.err.err \in {"Expected", "ExpectedId", "UnexpectedToken", "EOF"}

\* each of the four ParseError values is the result of some source
C16_Witness ==
    /\ phase = "done"
    /\ outcome.k = "ParseError"
    /\ outcome.err.err = "ExpectedId"

(***************************************************************************)
(* The lexer alone: a caller takes token after token from a Tokenizer over *)
(* a byte sequence, as the loop of tests::test_especial_tokens does, and   *)
(* goes on after an Eof, as the lookahead of the parser does (parser.rs    *)
(* 62-64), until MaxEofs of them have come.  An entry of toks              *)
(* is the token, its span, and `rest`: the bytes of the input the reader   *)
(* has not given out yet when next returns.                                *)
(***************************************************************************)
MaxBytes == 4
MaxEofs == 2

LexBytes == {"/", "*", "\n", " ", "a", "\"", NUL}

SymbolTable ==
    {[bytes |-> <<".", ".", ".">>, kind |-> "Ellipsis"],
     [bytes |-> <<">", ">", "=">>, kind |-> "RightAssign"],
     [bytes |-> <<"<", "<", "=">>, kind |-> "LeftAssign"],
     [bytes |-> <<">", ">">>, kind |-> "RightShift"],
     [bytes |-> <<"<", "<">>, kind |-> "LeftShift"],
     [bytes |-> <<"<", "=">>, kind |-> "LessEquals"],
     [bytes |-> <<">", "=">>, kind |-> "GreaterEquals"],
     [bytes |-> <<"=", "=">>, kind |-> "Equals"],
     [bytes |-> <<"!", "=">>, kind |-> "NotEquals"],
     [bytes |-> <<"&", "&">>, kind |-> "And"],
     [bytes |-> <<"|", "|">>, kind |-> "Or"],
     [bytes |-> <<"-", ">">>, kind |-> "Pointer"],
     [bytes |-> <<"+", "+">>, kind |-> "PlusPlus"],
     [bytes |-> <<"-", "-">>, kind |-> "MinusMinus"],
     [bytes |-> <<"+", "=">>, kind |-> "PlusAssign"],
     [bytes |-> <<"-", "=">>, kind |-> "MinusAssign"],
     [bytes |-> <<"*", "=">>, kind |-> "TimesAssign"],
     [bytes |-> <<"/", "=">>, kind |-> "DivAssign"],
     [bytes |-> <<"%", "=">>, kind |-> "PercentAssign"],
     [bytes |-> <<"&", "=">>, kind |-> "AndAssign"],
     [bytes |-> <<"^", "=">>, kind |-> "XorAssign"],
     [bytes |-> <<"|", "=">>, kind |-> "OrAssign"]}

\* spaces up to the last two bytes of the reader's first buffer
Pad == [i \in 1..(BUFFER_SIZE - LOOKAHEAD_AMOUNT + 1) |-> " "]

\* a block comment, a line comment that holds `*`, and the line feeds
Comments == <<"/", "*", "a", "*", "/", "\n", "/", "/", "*", "\n">>

Before == {<<>>, <<"a">>, <<"=">>, <<"/", "*", "*", "/">>, Comments, Pad}

After == {<<>>, <<"=">>, <<">">>, <<"<">>, <<".">>, <<"a">>}

\* tests::test: `.123e123l`
Example_leading_dot == <<".", "1", "2", "3", "e", "1", "2", "3", "l">>

\* digit runs, and exponents with and without a sign
Mantissas == {<<"0">>, <<"7">>, <<"1", "2">>, <<"0", "1", "2">>, <<"0", "0">>}

ExponentSigns == {<<>>, <<"+">>, <<"-">>}

ExponentInputs ==
    {m \o e \o g \o d : m \in Mantissas, e \in {<<"e">>, <<"E">>},
                         g \in ExponentSigns, d \in {<<"5">>, <<"1", "0">>}}

LexInputs ==
    UNION {[1..n -> LexBytes] : n \in 0..MaxBytes}
        \cup {p \o s.bytes \o q : p \in Before, s \in SymbolTable, q \in After}
        \cup {Example_leading_dot}
        \cup ExponentInputs

\* the bytes of the reader's text that went to its lookahead
Delivered(r) == r.offset - (r.count - r.pos)

RECURSIVE StripNUL(_)
StripNUL(b) ==
    IF b # <<>> /\ b[Len(b)] = NUL THEN StripNUL(SubSeq(b, 1, Len(b) - 1)) ELSE b

\* the bytes the reader has not given out yet, zero bytes at the end apart
Remaining(r) ==
    StripNUL(IF r.eof THEN r.lookahead
             ELSE SubSeq(r.code, Delivered(r) - LOOKAHEAD_AMOUNT + 1, Len(r.code)))

Eofs == Cardinality({i \in 1..Len(toks) : toks[i].tok.kind = "Eof"})

LexInit ==
    /\ phase = "lexing"
    /\ source \in LexInputs
    /\ tk = Tokenizer_new(SourceReader_new(source))
    /\ toks = <<>>
    /\ ast = [statements |-> <<>>]
    /\ cp = [root_function |-> CompiledFunction(0), next_id |-> 0, declared |-> EmptyMap]
    /\ rt = Runtime_new
    /\ env = Env_new
    /\ calls = <<>>
    /\ outcome = [k |-> "none"]
    /\ printed = <<>>
    /\ last = NoLast
    /\ dead = {}

\* one call of Tokenizer::next; a call that never returns ends the run
LexToken ==
    /\ phase = "lexing"
    /\ Eofs < MaxEofs
    /\ Let(Tokenizer_next(tk), LAMBDA t :
           IF t.tok.kind = "Hang"
           THEN /\ outcome' = [k |-> "Hang"]
                /\ phase' = "done"
                /\ UNCHANGED <<tk, toks>>
           ELSE /\ tk' = t.read
                /\ toks' = Append(toks, [tok |-> t.tok, span |-> t.span,
                                         rest |-> Remaining(t.read)])
                /\ UNCHANGED <<phase, outcome>>)
    /\ UNCHANGED <<source, ast, cp, rt, env, calls, printed, last, dead>>

LexNext == LexToken

LexSpec == LexInit /\ [][LexNext]_vars

\* C17: a call of next returns Eof only when no byte of the input is left,
\* and after an Eof every later call returns Eof.
C17_EofIsFinal ==
    \A i \in 1..Len(toks) :
        toks[i].tok.kind = "Eof" =>
            /\ toks[i].rest = <<>>
            /\ \A j \in i..Len(toks) : toks[j].tok.kind = "Eof"

\* an input without a zero byte has been lexed up to its second Eof
C17_Witness ==
    /\ source = <<"a", " ", "a">>
    /\ Len(toks) = 4
    /\ toks[3].tok.kind = "Eof"
    /\ toks[4].tok.kind = "Eof"

\* the bytes before the last call of next: the whole input, or what the
\* call before it left
BeforeLast ==
    IF Len(toks) = 1 THEN StripNUL(source) ELSE toks[Len(toks) - 1].rest

StartsWith(b, s) == Len(b) >= Len(s) /\ SubSeq(b, 1, Len(s)) = s

\* the bytes after a line comment's text: from its line feed on
RECURSIVE AfterLine(_)
AfterLine(b) ==
    IF b = <<>> \/ b[1] = "\n" \/ b[1] = NUL THEN b ELSE AfterLine(Tail(b))

\* the bytes after the `*/` that closes a block comment's text; <<NUL>>
\* when nothing closes it
RECURSIVE AfterBlock(_)
AfterBlock(b) ==
    IF b = <<>> \/ b[1] = NUL THEN <<NUL>>
    ELSE IF StartsWith(b, <<"*", "/">>) THEN Tail(Tail(b))
    ELSE AfterBlock(Tail(b))

\* b without the whitespace and the comments it starts with
RECURSIVE SkipBlanks(_)
SkipBlanks(b) ==
    IF b = <<>> THEN b
    ELSE IF is_ascii_whitespace(b[1]) THEN SkipBlanks(Tail(b))
    ELSE IF StartsWith(b, <<"/", "/">>) THEN SkipBlanks(AfterLine(Tail(Tail(b))))
    ELSE IF StartsWith(b, <<"/", "*">>) /\ AfterBlock(Tail(Tail(b))) # <<NUL>>
    THEN SkipBlanks(AfterBlock(Tail(Tail(b))))
    ELSE b

\* C18: the token a call of next returns is the one that starts where the
\* whitespace and the comments before it end, and the call gives out these
\* bytes and the token's, no others: no byte of a line comment or of a
\* terminated block comment makes a token.
C18_CommentsSkipped ==
    (toks # <<>> /\ ~StartsWith(SkipBlanks(BeforeLast), <<"/", "*">>)) =>
        Let(Tokenizer_next(SourceReader_new(SkipBlanks(BeforeLast))), LAMBDA t :
            /\ t.tok.kind # "Hang"
            /\ toks[Len(toks)].tok = t.tok
            /\ toks[Len(toks)].rest = Remaining(t.read))

\* `==` has been lexed after a block comment, a line comment and the line
\* feeds after them
C18_Witness ==
    /\ source = Comments \o <<"=", "=">>
    /\ Len(toks) = 1
    /\ toks[1].tok = Tk("Equals")

\* C19: no call of next on a finite input goes on for ever.
C19_NextReturns == outcome.k # "Hang"

\* a string literal with its closing quote has been lexed
C19_Witness ==
    /\ source = <<"\"", "a", "\"">>
    /\ Len(toks) = 1
    /\ toks[1].tok.kind = "StringLiteral"

\* the symbol of the table, the longest if there are two, that b starts with
LongestSymbol(b) ==
    LET found == {s \in SymbolTable : StartsWith(b, s.bytes)}
    IN  IF found = {} THEN [bytes |-> <<>>, kind |-> "none"]
        ELSE CHOOSE s \in found : \A o \in found : Len(o.bytes) <= Len(s.bytes)

\* C20: when the input, the whitespace and the comments before it apart,
\* starts with a symbol of the table, next returns the token of the longest
\* such symbol and gives out the bytes of that symbol, no fewer.
C20_LongestMatch ==
    toks # <<>> =>
        Let(SkipBlanks(BeforeLast), LAMBDA b :
        Let(LongestSymbol(b), LAMBDA s :
            s.kind # "none" =>
                /\ toks[Len(toks)].tok = Tk(s.kind)
                /\ toks[Len(toks)].rest = SubSeq(b, Len(s.bytes) + 1, Len(b))))

\* `>>=` has been lexed as one token where it crosses the end of the
\* reader's first buffer, and the `=` after it as the next token
C20_Witness ==
    /\ source = Pad \o <<">", ">", "=", "=">>
    /\ Len(toks) = 2
    /\ toks[1].tok = Tk("RightAssign")
    /\ toks[2].tok = Tk("Assign")

\* C21: `.123e123l` is lexed to the one token FloatingLiteral of text
\* `.123e+123`, and nothing of the input is left after it.
C21_LeadingDotKept ==
    (source = Example_leading_dot /\ toks # <<>>) =>
        /\ toks[1].tok = [kind |-> "FloatingLiteral",
                          text |-> <<".", "1", "2", "3", "e", "+", "1", "2", "3">>]
        /\ toks[1].rest = <<>>

\* `.123e123l` has been lexed to one floating literal and then Eof
C21_Witness ==
    /\ source = Example_leading_dot
    /\ Len(toks) = 2
    /\ toks[1].tok.kind = "FloatingLiteral"
    /\ toks[2].tok.kind = "Eof"

\* text has a decimal point, and an `e` with a sign right after it
PointAndSignedExponent(text) ==
    /\ \E i \in 1..Len(text) : text[i] = "."
    /\ \E i \in 1..Len(text) - 1 : text[i] = "e" /\ text[i + 1] \in {"+", "-"}

\* C22: a digit run with an exponent right after it is lexed to one
\* floating literal, whose text has a decimal point and a signed exponent.
C22_ExponentPromotes ==
    (source \in ExponentInputs /\ toks # <<>>) =>
        /\ toks[1].tok.kind = "FloatingLiteral"
        /\ PointAndSignedExponent(toks[1].tok.text)
        /\ toks[1].rest = <<>>

\* `12e5` has been lexed to the floating literal of text `12.0e+5`
C22_Witness ==
    /\ source = <<"1", "2", "e", "5">>
    /\ toks # <<>>
    /\ toks[1].tok = [kind |-> "FloatingLiteral",
                      text |-> <<"1", "2", ".", "0", "e", "+", "5">>]
    /\ toks[1].rest = <<>>

\* the lambdas of an expression that lie in no other lambda of it, in the
\* order the compiler meets them
RECURSIVE Lambdas(_), LambdasIn(_)
LambdasIn(exprs) ==
    IF exprs = <<>> THEN <<>> ELSE Lambdas(Head(exprs)) \o LambdasIn(Tail(exprs))

Lambdas(expr) ==
    CASE expr.e = "Lambda" -> <<expr>>
      [] expr.e = "UnaryOperator" -> Lambdas(expr.expr)
      [] expr.e = "FunCall" -> LambdasIn(expr.args)
      [] expr.e = "Operator" -> Lambdas(expr.left) \o Lambdas(expr.right)
      [] expr.e = "List" -> LambdasIn(expr.items)
      [] expr.e = "Tuple" -> LambdasIn(expr.values)
      [] expr.e = "Return" -> Lambdas(expr.value)
      [] OTHER -> <<>>

RECURSIVE StatementLambdas(_)
StatementLambdas(stms) ==
    IF stms = <<>> THEN <<>>
    ELSE (CASE Head(stms).s = "Variable" -> Lambdas(Head(stms).value)
            [] Head(stms).s = "Expression" -> Lambdas(Head(stms).expr)
            [] OTHER -> <<>>)
         \o StatementLambdas(Tail(stms))

\* the ids a compilation of the statements asks for: one per variant, one
\* per lambda, those of the lambdas' bodies included
RECURSIVE IdsAsked(_), IdsAskedBy(_)
IdsAskedBy(lambdas) ==
    IF lambdas = <<>> THEN 0
    ELSE 1 + IdsAsked(Head(lambdas).code) + IdsAskedBy(Tail(lambdas))

RECURSIVE VariantCount(_)
VariantCount(stms) ==
    IF stms = <<>> THEN 0
    ELSE (IF Head(stms).s = "TypeDef" THEN Len(Head(stms).variants) ELSE 0)
         + VariantCount(Tail(stms))

IdsAsked(stms) == VariantCount(stms) + IdsAskedBy(StatementLambdas(stms))

\* the ids of the Function instructions of a code, in order
RECURSIVE FunctionIds(_)
FunctionIds(code) ==
    IF code = <<>> THEN <<>>
    ELSE (IF Head(code).op = "Function" THEN <<Head(code).func>> ELSE <<>>)
         \o FunctionIds(Tail(code))

\* the ids of the lambdas of a function in the order they were handed out:
\* the ids of a lambda's body, then the lambda's own
RECURSIVE LambdaOrder(_), LambdaOrderOf(_, _)
LambdaOrderOf(f, ids) ==
    IF ids = <<>> THEN <<>>
    ELSE (IF Head(ids) \in DOMAIN f.functions
          THEN LambdaOrder(f.functions[Head(ids)]) ELSE <<>>)
         \o <<Head(ids)>> \o LambdaOrderOf(f, Tail(ids))

LambdaOrder(f) == LambdaOrderOf(f, FunctionIds(f.code))

\* f is the compilation of stms: its Function instructions name, in order,
\* the lambdas of stms, each stored in f's own table and compiled from its
\* lambda, and the table holds nothing else
RECURSIVE Encloses(_, _)
Encloses(f, stms) ==
    LET ids == FunctionIds(f.code)
        lambdas == StatementLambdas(stms)
    IN  /\ Len(ids) = Len(lambdas)
        /\ DOMAIN f.functions = {ids[i] : i \in 1..Len(ids)}
        /\ \A i \in 1..Len(ids) :
               /\ ids[i] \in DOMAIN f.functions
               /\ f.functions[ids[i]].args = Len(lambdas[i].args)
               /\ Encloses(f.functions[ids[i]], lambdas[i].code)

\* C23: the ids the compiler hands out are distinct and each is larger than
\* those handed out before it; each lambda is stored under its id in the
\* table of the function that encloses it, and a Function instruction names
\* an id of the table of the function whose code holds it.
C23_IdsFreshAndEnclosed ==
    phase \notin {"source", "parsed"} =>
        Let(LambdaOrder(cp.root_function), LAMBDA order :
            /\ \A i, j \in 1..Len(order) : i < j => order[i] < order[j]
            /\ \A c \in ClassesOf(cp.root_function) :
                   /\ c.id < cp.next_id
                   /\ \A i \in 1..Len(order) : order[i] # c.id
                   /\ \A o \in ClassesOf(cp.root_function) : o.id = c.id => o = c
            /\ \A i \in 1..Len(order) : order[i] < cp.next_id
            /\ cp.next_id = IdsAsked(ast.statements)
            /\ Encloses(cp.root_function, ast.statements))

\* a program with a type of two variants and a lambda inside a lambda has
\* been compiled
C23_Witness ==
    /\ phase = "compiled"
    /\ Cardinality(ClassesOf(cp.root_function)) = 2
    /\ \E id \in DOMAIN cp.root_function.functions :
           DOMAIN cp.root_function.functions[id].functions # {}

Statement_Variable(name, value) == [s |-> "Variable", name |-> name, value |-> value]

\* C24: with any number of `;` before the first statement, between two
\* statements and after the last, parse_program returns the statements it
\* returns for `x = 1;y = 2`; semicolons alone parse to the empty program.
C24_SemicolonRuns ==
    /\ \A k \in 0..MaxSemis, i \in 1..MaxSemis, j \in 0..MaxSemis :
           (source = SemicolonSource(k, i, j) /\ phase # "source") =>
               /\ phase = "parsed"
               /\ SameStatements(ast.statements,
                                 <<Statement_Variable("x", Expression_Int(1)),
                                   Statement_Variable("y", Expression_Int(2))>>)
    /\ \A k \in 1..MaxSemis :
           (source = Semis(k) /\ phase # "source") =>
               (phase = "parsed" /\ ast.statements = <<>>)

\* `;;x = 1;;y = 2;` has been parsed to the two statements
C24_Witness ==
    /\ source = SemicolonSource(2, 2, 1)
    /\ phase = "parsed"
    /\ SameStatements(ast.statements,
                      <<Statement_Variable("x", Expression_Int(1)),
                        Statement_Variable("y", Expression_Int(2))>>)

Expression_Tuple(values) == [e |-> "Tuple", values |-> values]

\* no Tuple of the expression, the expression included, has one value
RECURSIVE NoSingleTuple(_), NoSingleTupleIn(_)
NoSingleTupleIn(stms) ==
    \A i \in 1..Len(stms) :
        CASE stms[i].s = "Variable" -> NoSingleTuple(stms[i].value)
          [] stms[i].s = "Expression" -> NoSingleTuple(stms[i].expr)
          [] OTHER -> TRUE

NoSingleTuple(expr) ==
    CASE expr.e = "Tuple" ->
           Len(expr.values) # 1 /\ \A i \in 1..Len(expr.values) : NoSingleTuple(expr.values[i])
      [] expr.e = "UnaryOperator" -> NoSingleTuple(expr.expr)
      [] expr.e = "FunCall" -> \A i \in 1..Len(expr.args) : NoSingleTuple(expr.args[i])
      [] expr.e = "Operator" -> NoSingleTuple(expr.left) /\ NoSingleTuple(expr.right)
      [] expr.e = "List" -> \A i \in 1..Len(expr.items) : NoSingleTuple(expr.items[i])
      [] expr.e = "Lambda" -> NoSingleTupleIn(expr.code)
      [] expr.e = "Return" -> NoSingleTuple(expr.value)
      [] OTHER -> TRUE

\* no instruction of the function or of its lambdas is Tuple(1)
RECURSIVE NoTupleOfOne(_)
NoTupleOfOne(f) ==
    /\ \A i \in 1..Len(f.code) : f.code[i].op = "Tuple" => f.code[i].items # 1
    /\ \A id \in DOMAIN f.functions : NoTupleOfOne(f.functions[id])

\* C25: the parser makes no Tuple of one value and the compiler no
\* instruction Tuple(1): `(1)` is 1, `()` the Tuple of no value, `(2, 3)`
\* the Tuple of two.
C25_NoSingleTuple ==
    /\ NoSingleTupleIn(ast.statements)
    /\ NoTupleOfOne(cp.root_function)
    /\ (source = Example_tuples /\ phase # "source") =>
           SameStatements(ast.statements,
               <<Statement_Expression(Expression_Int(1)),
                 Statement_Expression(Expression_Tuple(<<>>)),
                 Statement_Expression(Expression_Tuple(<<Expression_Int(2),
                                                         Expression_Int(3)>>)),
                 Statement_Expression(Expression_Int(4)),
                 Statement_Expression(Expression_Int(5))>>)

\* the example with `(1)`, `()`, `(2, 3)` has been compiled: its code holds
\* Tuple(0) and Tuple(2)
C25_Witness ==
    /\ source = Example_tuples
    /\ phase = "compiled"
    /\ \E i, j \in 1..Len(cp.root_function.code) :
           /\ cp.root_function.code[i] = Inst_Tuple(0)
           /\ cp.root_function.code[j] = Inst_Tuple(2)

\* the tokens from the i-th on match Identifier (',' Identifier)* '|':
\* [matched, names, count], count the tokens of the match
RECURSIVE ParameterPattern(_, _, _)
ParameterPattern(tokens, i, names) ==
    IF i + 1 > Len(tokens) \/ tokens[i].tok.kind # "Identifier"
    THEN [matched |-> FALSE, names |-> <<>>, count |-> 0]
    ELSE IF tokens[i + 1].tok.kind = "Pipe"
    THEN [matched |-> TRUE, names |-> Append(names, tokens[i].tok.text),
          count |-> i + 1]
    ELSE IF tokens[i + 1].tok.kind = "Comma"
    THEN ParameterPattern(tokens, i + 2, Append(names, tokens[i].tok.text))
    ELSE [matched |-> FALSE, names |-> <<>>, count |-> 0]

\* C26: the lambda of `{ ... x }` has the names of the pattern
\* Identifier (',' Identifier)* '|' as parameters when the tokens after `{`
\* start with it, and its body is what follows the pattern; otherwise it has
\* no parameter and its body is all that follows `{`.
C26_ParameterScan ==
    (source \in LambdaSources /\ phase # "source") =>
        Let(Parser_next(Parser_new(tk)), LAMBDA p :
        Let(ParameterPattern(p.lookahead, 1, <<>>), LAMBDA m :
        Let(parse_lambda_code(Parser_next_times(p, m.count), <<>>), LAMBDA body :
            /\ body.ok => ParsedTo(Expression_Lambda(m.names, body.val))
            /\ ~body.ok => phase = "done"
            /\ source = LambdaSource(<<1, 3, 2, 4>>) =>
                   ParsedTo(Expression_Lambda(<<"a", "b">>,
                       <<Statement_Expression(Expression_FunCall("x", <<>>))>>))
            /\ source = LambdaSource(<<1, 3, 2>>) =>
                   ParsedTo(Expression_Lambda(<<>>,
                       <<Statement_Expression(Expression_FunCall("a", <<>>)),
                         Statement_Expression(Expression_FunCall("b",
                             <<Expression_FunCall("x", <<>>)>>))>>)))))

\* `{ a , b | x }` has been parsed to the lambda of a and b
C26_Witness ==
    /\ source = LambdaSource(<<1, 3, 2, 4>>)
    /\ phase = "parsed"
    /\ ast.statements[1].expr.e = "Lambda"
    /\ ast.statements[1].expr.args = <<"a", "b">>

\* C30: `a - b` parses to Minus of the calls a and b, and `a * b + c` to
\* Plus of the product of a and b and the call c.
C30_IdentifierThenSign ==
    /\ (source = Example_minus /\ phase # "source") =>
           ParsedTo(Expression_Operator("Minus", Expression_FunCall("a", <<>>),
                                        Expression_FunCall("b", <<>>)))
    /\ (source = Example_sum /\ phase # "source") =>
           ParsedTo(Expression_Operator("Plus",
                        Expression_Operator("Times", Expression_FunCall("a", <<>>),
                                            Expression_FunCall("b", <<>>)),
                        Expression_FunCall("c", <<>>)))

\* `a * b + c` has been parsed to one expression, a product whose left
\* operand is the call a
C30_Witness ==
    /\ source = Example_sum
    /\ phase = "parsed"
    /\ Len(ast.statements) = 1
    /\ ast.statements[1].expr.e = "Operator"
    /\ ast.statements[1].expr.operator = "Times"
    /\ ast.statements[1].expr.left.name = "a"

\* C27: a Call of a name bound to a closure finds the closure's function in
\* the table of a live frame, and a run ends with a value or with a
\* RuntimeError, never with an abort.
C27_ClosureResolves ==
    /\ (At("Call") /\ Env_get(env, CurInst.name).some) =>
           Let(Env_get(env, CurInst.name).value, LAMBDA value :
               value.t = "Function" => Env_get_function(env, value.func).some)
    /\ (phase = "done" /\ last.op # "") => outcome.k \in {"Ok", "Err"}

\* a closure called from inside another closure was found in a live frame
C27_Witness ==
    /\ phase = "running"
    /\ last.op = "Call"
    /\ last.k = "invoke"
    /\ last.depth >= 2
    /\ \E i \in 1..last.depth : Top.fid \in DOMAIN env[i].functions

\* C28: when a closure's invocation ends with a value, the frames are the
\* ones that were there when the closure was called, each with the variables
\* it had then, and the caller is the running invocation again with its
\* operand stack one value longer than the call left it.
C28_CallKeepsCallerFrames ==
    [][(phase = "running" /\ Len(calls) >= 2 /\ phase' = "running"
            /\ last'.k = "return" /\ last'.depth = Len(calls)) =>
          /\ Len(calls') = Len(calls) - 1
          /\ Len(env') = Len(Top.below)
          /\ Len(env') = Len(calls')
          /\ \A i \in 1..Len(env') : SameFrame(env'[i], Top.below[i])
          /\ Len(NewStack) = Len(calls[Len(calls) - 1].stack) + 1
    ]_vars

\* a closure that bound a name of its own which its caller binds too has
\* returned, and the caller's binding is another value than the argument the
\* closure stored under the name
C28_Witness ==
    /\ phase = "running"
    /\ last.k = "return"
    /\ last.depth = 2
    /\ Len(env) = 1
    /\ "x" \in dead
    /\ "x" \in DOMAIN env[1].variables
    /\ SameValue(env[1].variables["x"], Value_Int(1))
    /\ Len(Top.stack) > 0

\* the length of the root function's code once the first j statements of the
\* program are compiled
CodeBefore(j) ==
    Len(compile(Compiler_new,
                [statements |-> SubSeq(ast.statements, 1, j)]).root_function.code)

\* the statement of the program that instruction ip of the root function
\* (counted from 0) was compiled from
StatementOf(ip) ==
    CHOOSE j \in 1..Len(ast.statements) : CodeBefore(j - 1) <= ip /\ ip < CodeBefore(j)

\* the values the expression statements before statement j leave on the
\* operand stack of the root invocation, one each
LeftBefore(j) ==
    Cardinality({i \in 1..(j - 1) : ast.statements[i].s = "Expression"})

\* the number of values the Call of the name is about to pop
Needed(name) ==
    LET rule == resolve(rt, env, name) IN
    CASE rule = "Variable" ->
           Let(Env_get(env, name).value, LAMBDA value :
               IF value.t = "Function" /\ Env_get_function(env, value.func).some
               THEN Env_get_function(env, value.func).value.args
               ELSE 0)
      [] rule = "TypeDef" -> Len(Env_get_instance_class(env, name).value.properties)
      [] rule = "Builtin function" -> rt.builtin_functions[name].args
      [] rule = "Builtin TypeDef" -> Len(rt.builtin_instance_classes[name].properties)
      [] rule = "Error not found" -> 0

\* the call that statement j consists of, when it is one: the expression of
\* an expression statement, the value of an assignment
CallOf(j) ==
    LET stm == ast.statements[j]
        expr == CASE stm.s = "Expression" -> stm.expr
                  [] stm.s = "Variable" -> stm.value
                  [] stm.s = "TypeDef" -> [e |-> "none"]
    IN  IF expr.e = "FunCall"
        THEN [some |-> TRUE, supplied |-> Len(expr.args),
              ip |-> CodeBefore(j) - (IF stm.s = "Variable" THEN 2 ELSE 1)]
        ELSE [some |-> FALSE, supplied |-> 0, ip |-> -1]

\* C29: a Call of the root invocation that pops n values leaves on the stack
\* the values of the expression statements before its own statement, and the
\* call a statement consists of ends the run with StackUnderflow when the
\* statement gives it fewer arguments than the n it pops.
C29_CallTakesOwnArguments ==
    [][(At("Call") /\ Len(calls) = 1) =>
          LET j == StatementOf(Top.ip)
              n == Needed(CurInst.name)
              call == CallOf(j)
          IN  /\ last'.k \in {"next", "invoke"} =>
                     Len(Top.stack) - n >= LeftBefore(j)
              /\ (call.some /\ call.ip = Top.ip /\ call.supplied < n) =>
                     /\ last'.k = "err"
                     /\ outcome'.err.e = "StackUnderflow"
    ]_vars

\* a closure of two parameters was called by a statement with two arguments
\* and got the two values, the stack of the root invocation left empty
C29_Witness ==
    /\ phase = "running"
    /\ last.op = "Call"
    /\ last.k = "invoke"
    /\ Len(calls) = 2
    /\ Len(Top.pushed) = 2
    /\ Top.p.args = 2
    /\ calls[1].stack = <<>>
=============================================================================
